---- MODULE Spec2Model ----
(***************************************************************************)
(* A model of the Terminal AppleScript MCP server (src/server/index.js):   *)
(* the value caster (universalCast, castAndEscape), the literal escaper    *)
(* (escapeForAppleScript), the execution envelope (executeAppleScript,     *)
(* checkTerminalAvailable) and the request dispatcher (handleMessage,      *)
(* handleToolsCall, sendResponse).                                         *)
(*                                                                         *)
(* A JavaScript string is a sequence of one-character strings.  A          *)
(* JavaScript value is a record tagged with its typeof.                    *)
(***************************************************************************)
EXTENDS Integers, Sequences, FiniteSets, TLC

VARIABLES
    \* ---- the server (specification Spec) ----
    pc,        \* pc[r]: where request r's handler stands
    req,       \* req[r]: the parsed line of request r
    call,      \* call[r]: the executeAppleScript call request r is awaiting
    execs,     \* execs[r]: the executeAppleScript calls begun for request r, in order
    output,    \* the lines written to stdout by sendResponse, in order
    initialized,  \* this.initialized
    \* ---- the caster and escaper applied to one value (specification SpecCast) ----
    cin,       \* the value handed to the function
    cop,       \* the function applied, "none" before
    cout       \* what it returned

vars == <<pc, req, call, execs, output, initialized, cin, cop, cout>>
srvVars == <<pc, req, call, execs, output, initialized>>
castVars == <<cin, cop, cout>>

(***************************************************************************)
(* Characters and strings                                                  *)
(***************************************************************************)
BS == "\\"
DQ == "\""
SQ == "'"
NL == "\n"
CR == "\r"
TAB == "\t"
SP == " "

Digits == <<"0","1","2","3","4","5","6","7","8","9">>
Upper == <<"A","B","C","D","E","F","G","H","I","J","K","L","M",
           "N","O","P","Q","R","S","T","U","V","W","X","Y","Z">>
Lower == <<"a","b","c","d","e","f","g","h","i","j","k","l","m",
           "n","o","p","q","r","s","t","u","v","w","x","y","z">>

IsDigit(c) == \E i \in 1..10 : Digits[i] = c
DigitVal(c) == (CHOOSE i \in 1..10 : Digits[i] = c) - 1

\* the white space String.prototype.trim removes, among the characters used here
IsSpace(c) == c \in {SP, TAB, NL, CR}

RECURSIVE Pow(_, _)
Pow(b, n) == IF n = 0 THEN 1 ELSE b * Pow(b, n - 1)

RECURSIVE Flatten(_)
Flatten(ss) == IF ss = <<>> THEN <<>> ELSE Head(ss) \o Flatten(Tail(ss))

\* String.prototype.trim
RECURSIVE trimStart(_)
trimStart(s) ==
    IF s # <<>> /\ IsSpace(s[1]) THEN trimStart(Tail(s)) ELSE s

RECURSIVE trimEnd(_)
trimEnd(s) ==
    IF s # <<>> /\ IsSpace(s[Len(s)]) THEN trimEnd(SubSeq(s, 1, Len(s) - 1)) ELSE s

trim(s) == trimEnd(trimStart(s))

\* String.prototype.toLowerCase
toLowerCaseChar(c) ==
    IF \E i \in 1..26 : Upper[i] = c
    THEN Lower[CHOOSE i \in 1..26 : Upper[i] = c]
    ELSE c

toLowerCase(s) == [i \in 1..Len(s) |-> toLowerCaseChar(s[i])]

\* String.prototype.startsWith, endsWith, includes
startsWith(s, p) == Len(s) >= Len(p) /\ SubSeq(s, 1, Len(p)) = p
endsWith(s, p) == Len(s) >= Len(p) /\ SubSeq(s, Len(s) - Len(p) + 1, Len(s)) = p
includes(s, c) == \E i \in 1..Len(s) : s[i] = c

\* String.prototype.slice(1, -1)
slice1m1(s) == SubSeq(s, 2, Len(s) - 1)

\* String.prototype.split on a one-character separator
RECURSIVE split(_, _)
split(s, c) ==
    IF ~includes(s, c) THEN <<s>>
    ELSE LET i == CHOOSE k \in 1..Len(s) :
                      s[k] = c /\ \A j \in 1..(k - 1) : s[j] # c
         IN <<SubSeq(s, 1, i - 1)>> \o split(SubSeq(s, i + 1, Len(s)), c)

\* String.prototype.replace(/c/g, r) for a one-character pattern c
RECURSIVE replaceAll(_, _, _)
replaceAll(s, c, r) ==
    IF s = <<>> THEN <<>>
    ELSE (IF s[1] = c THEN r ELSE <<s[1]>>) \o replaceAll(Tail(s), c, r)

(***************************************************************************)
(* JavaScript values                                                       *)
(***************************************************************************)
Undefined == [t |-> "undefined"]
Null == [t |-> "null"]
Bool(b) == [t |-> "boolean", v |-> b]
Str(s) == [t |-> "string", v |-> s]
\* a number m / 10^e, kept normal: e = 0 or 10 does not divide m
Num(m, e) == [t |-> "number", m |-> m, e |-> e]

typeof(x) == IF x.t = "null" THEN "object" ELSE x.t

\* a pattern that forgets the optional minus sign
NumericPatternNoSign(s) ==
    LET dots == {i \in 1..Len(s) : s[i] = "."}
    IN  IF dots = {}
        THEN s # <<>> /\ \A i \in 1..Len(s) : IsDigit(s[i])
        ELSE /\ Cardinality(dots) = 1
             /\ LET d == CHOOSE i \in dots : TRUE
                IN  /\ d > 1
                    /\ d < Len(s)
                    /\ \A i \in 1..Len(s) : i # d => IsDigit(s[i])

\* the regular expression /^-?\d+(\.\d+)?$/ of lines 28 and 43
NumericPattern(s) ==
    LET body == IF s # <<>> /\ s[1] = "-" THEN Tail(s) ELSE s
        dots == {i \in 1..Len(body) : body[i] = "."}
    IN  IF dots = {}
        THEN body # <<>> /\ \A i \in 1..Len(body) : IsDigit(body[i])
        ELSE /\ Cardinality(dots) = 1
             /\ LET d == CHOOSE i \in dots : TRUE
                IN  /\ d > 1
                    /\ d < Len(body)
                    /\ \A i \in 1..Len(body) : i # d => IsDigit(body[i])

RECURSIVE DigitsToNat(_)
DigitsToNat(ds) ==
    IF ds = <<>> THEN 0
    ELSE 10 * DigitsToNat(SubSeq(ds, 1, Len(ds) - 1)) + DigitVal(ds[Len(ds)])

RECURSIVE NatToDigits(_)
NatToDigits(n) ==
    IF n < 10 THEN <<Digits[n + 1]>>
    ELSE NatToDigits(n \div 10) \o <<Digits[(n % 10) + 1]>>

RECURSIVE Normal(_, _)
Normal(m, e) ==
    IF e > 0 /\ m % 10 = 0 THEN Normal(m \div 10, e - 1) ELSE Num(m, e)

\* Number(str) for a str that matches NumericPattern (line 29).  The value is
\* exact: the strings drawn here have far fewer than the 15 significant
\* digits a double holds.
Number(s) ==
    LET neg  == s[1] = "-"
        body == IF neg THEN Tail(s) ELSE s
        d    == IF includes(body, ".")
                THEN CHOOSE i \in 1..Len(body) : body[i] = "."
                ELSE Len(body) + 1
        ip   == SubSeq(body, 1, d - 1)
        fp   == SubSeq(body, d + 1, Len(body))
        mag  == DigitsToNat(ip \o fp)
    IN  Normal(IF neg THEN 0 - mag ELSE mag, Len(fp))

RECURSIVE PadZeros(_, _)
PadZeros(ds, n) == IF Len(ds) >= n THEN ds ELSE PadZeros(<<"0">> \o ds, n)

\* String(num), the text a template literal or JSON gives a number.  Minus
\* zero prints as 0.  (Exponent notation starts at 1e21 and below 1e-6, beyond
\* the strings drawn here.)
NumberToString(n) ==
    LET mag == IF n.m < 0 THEN 0 - n.m ELSE n.m
        p   == Pow(10, n.e)
    IN  (IF n.m < 0 THEN <<"-">> ELSE <<>>)
        \o NatToDigits(mag \div p)
        \o (IF n.e > 0 THEN <<".">> \o PadZeros(NatToDigits(mag % p), n.e) ELSE <<>>)

\* String(value), also what a template literal `${value}` inserts
String(x) ==
    CASE x.t = "string"    -> x.v
      [] x.t = "number"    -> NumberToString(x)
      [] x.t = "boolean"   -> IF x.v THEN <<"t","r","u","e">> ELSE <<"f","a","l","s","e">>
      [] x.t = "null"      -> <<"n","u","l","l">>
      [] x.t = "undefined" -> <<"u","n","d","e","f","i","n","e","d">>

(***************************************************************************)
(* The value caster: universalCast (lines 16-65)                           *)
(***************************************************************************)
\* the regular expression /^\d{4}-\d{2}-\d{2}/ of line 54 (a prefix match)
DatePattern(s) ==
    /\ Len(s) >= 10
    /\ \A i \in {1, 2, 3, 4, 6, 7, 9, 10} : IsDigit(s[i])
    /\ s[5] = "-"
    /\ s[8] = "-"

DatePrefix == <<"d","a","t","e"," ","\"">>

\* the return statement universalCast leaves by: its if-chain, in order
trimAll(ps) == [i \in 1..Len(ps) |-> trim(ps[i])]

castBranchOf(str, lower, parts) ==
    IF str = <<>> THEN "empty"
    ELSE IF lower \in {<<"t","r","u","e">>, <<"y","e","s">>} THEN "true"
    ELSE IF lower \in {<<"f","a","l","s","e">>, <<"n","o">>} THEN "false"
    ELSE IF NumericPattern(str) THEN "number"
    ELSE IF startsWith(str, <<"{">>) /\ endsWith(str, <<"}">>) THEN "braced"
    ELSE IF /\ includes(str, ",") /\ ~startsWith(str, <<"{">>)
            /\ Len(parts) = 4
            /\ \A i \in 1..Len(parts) : NumericPattern(parts[i])
         THEN "rectangle"
    ELSE IF /\ includes(str, ",") /\ ~startsWith(str, <<"{">>)
            /\ Len(parts) >= 2
         THEN "list"
    ELSE IF startsWith(str, DatePrefix) \/ DatePattern(str) THEN "date"
    ELSE IF \/ startsWith(str, <<DQ>>) /\ endsWith(str, <<DQ>>)
            \/ startsWith(str, <<SQ>>) /\ endsWith(str, <<SQ>>)
         THEN "unquote"
    ELSE "string"

castBranchOfStr(str) == castBranchOf(str, toLowerCase(str), trimAll(split(str, ",")))

castBranch(value) ==
    IF value.t \in {"null", "undefined"} THEN "null"
    ELSE castBranchOfStr(trim(String(value)))

\* what each return statement gives, str being the trimmed String(value)
castReturn(b, str) ==
    CASE b = "null"      -> Null
      [] b = "empty"     -> Str(<<>>)
      [] b = "true"      -> Bool(TRUE)
      [] b = "false"     -> Bool(FALSE)
      [] b = "number"    -> Number(str)
      [] b = "braced"    -> Str(str)
      [] b = "rectangle" -> Str(<<"{">> \o str \o <<"}">>)
      [] b = "list"      -> Str(<<"{">> \o str \o <<"}">>)
      [] b = "date"      -> Str(DatePrefix \o str \o <<DQ>>)
      [] b = "unquote"   -> Str(slice1m1(str))
      [] b = "string"    -> Str(str)

universalCast(value) == castReturn(castBranch(value), trim(String(value)))

(***************************************************************************)
(* The literal escaper: escapeForAppleScript (lines 81-88).  The second    *)
(* replacement's replacement text is the JavaScript literal '\"', which is *)
(* the one character ".                                                    *)
(***************************************************************************)
\* an escaper that doubles the backslashes last
escapeForAppleScriptBackslashLast(x) ==
    IF typeof(x) # "string" THEN x
    ELSE Str(replaceAll(
                replaceAll(
                    replaceAll(
                        replaceAll(x.v, DQ, <<DQ>>),
                        NL, <<BS, "n">>),
                    CR, <<BS, "r">>),
                BS, <<BS, BS>>))

escapeForAppleScript(x) ==
    IF typeof(x) # "string" THEN x
    ELSE Str(replaceAll(
                replaceAll(
                    replaceAll(
                        replaceAll(x.v, BS, <<BS, BS>>),
                        DQ, <<DQ>>),
                    NL, <<BS, "n">>),
                CR, <<BS, "r">>))

\* lines 68-78; the second argument its callers pass (a type hint) is not a
\* parameter of the function and is dropped
escapeCasted(casted) ==
    IF /\ typeof(casted) = "string"
       /\ ~startsWith(casted.v, <<"{">>)
       /\ ~startsWith(casted.v, <<"d","a","t","e">>)
    THEN escapeForAppleScript(casted)
    ELSE casted

castAndEscape(value) == escapeCasted(universalCast(value))

\* a formatter that quotes every string, brace-wrapped literals and dates too
valueForScriptQuoteAll(castedValue) ==
    IF typeof(castedValue) = "string"
    THEN <<DQ>> \o String(castedValue) \o <<DQ>>
    ELSE String(castedValue)

\* the setters' "Determine value format for AppleScript" step (lines 3545-3551,
\* the same in every property setter): the text the script template inserts
valueForScript(castedValue) ==
    IF /\ typeof(castedValue) = "string"
       /\ ~startsWith(castedValue.v, <<"{">>)
       /\ ~startsWith(castedValue.v, <<"d","a","t","e">>)
    THEN <<DQ>> \o String(castedValue) \o <<DQ>>
    ELSE String(castedValue)

\* the setters of a settings set property (lines 5136-5139, 6799-6802): "Object
\* reference - no quotes", the text the script template inserts
referenceForScript(castedValue) == String(castedValue)

(***************************************************************************)
(* The values the caster and the escaper are applied to                    *)
(***************************************************************************)
MaxLen == 4      \* longest string drawn character by character
MaxTokens == 3   \* most tokens in a string drawn token by token
MaxParts == 4    \* most parts in a comma-separated string
MaxDigits == 2   \* most digits on either side of the decimal point

SeqsUpTo(S, n) == UNION {[1..k -> S] : k \in 0..n}

\* the characters the escaper treats, and two it leaves alone
EscChars == {BS, DQ, NL, CR, "a", "n"}

Tokens ==
    { <<"t","r","u","e">>,
      <<"n","o">>,
      <<"1">>,
      <<",">>,
      <<"{">>,
      <<"}">>,
      <<"d","a","t","e"," ","\"">>,
      <<"2","0","2","4","-","0","1","-","1","5">>,
      <<"\"">>,
      <<"'">>,
      <<" ">>,
      <<"a">> }

PartTexts ==
    { <<"1","0">>,
      <<"-","3">>,
      <<"0",".","5">>,
      <<"0","0","7">>,
      <<"a">> }

RECURSIVE Join(_, _)
Join(ps, sep) ==
    IF Len(ps) = 1 THEN ps[1] ELSE ps[1] \o sep \o Join(Tail(ps), sep)

NumDigits == {"0", "1", "7"}
DigitStrings == SeqsUpTo(NumDigits, MaxDigits) \ {<<>>}

\* every string matching -?digits(.digits)? over NumDigits
NumericStrings ==
    { sg \o ip \o fp :
        sg \in {<<>>, <<"-">>},
        ip \in DigitStrings,
        fp \in {<<>>} \cup { <<".">> \o d : d \in DigitStrings } }

CommaStrings ==
    { Join(ps, <<",">>) : ps \in UNION {[1..k -> PartTexts] : k \in 2..MaxParts} }

\* what JSON can deliver as an argument value that is not a string
OtherValues ==
    { Null, Undefined, Bool(TRUE), Bool(FALSE), Num(0, 0), Num(5, 0), Num(0 - 3, 0),
      Num(15, 1) }

\* the values the specification's own examples name
Examples ==
    { <<"1","0",",","2","0",",","3","0","0",",","4","0","0">>,
      <<"Y","e","s">>,
      <<"y","e","s">>,
      <<"T","R","U","E">>,
      <<"n","o">>,
      <<"F","a","l","s","e">>,
      <<"1">>,
      <<"o","n">>,
      <<"1",",","2">>,
      <<"2","0","2","4","-","0","1","-","1","5">>,
      <<"d","a","t","e"," ","\"","V","\"">>,
      <<"w","i","n","d","o","w"," ","\"","M","a","i","n","\"">>,
      <<"-","0","7",".","1","0">> }

\* values a settings set setter and a name setter can be given
References ==
    { <<"s","e","t","t","i","n","g","s"," ","s","e","t"," ","\"","P","r","o","\"">>,
      <<"s","e","t","t","i","n","g","s"," ","s","e","t"," ","1">>,
      <<"d","a","t","e","l","i","n","e">>,
      <<"{","a">>,
      <<"\"","P","r","o","\"">>,
      <<"0","0","7">> }

CastInputs ==
    { Str(s) : s \in Examples \cup References }
    \cup { Str(s) : s \in SeqsUpTo(EscChars, MaxLen) }
    \cup { Str(Flatten(ts)) : ts \in SeqsUpTo(Tokens, MaxTokens) }
    \cup { Str(s) : s \in NumericStrings }
    \cup { Str(s) : s \in CommaStrings }
    \cup OtherValues

(***************************************************************************)
(* Texts of the server                                                     *)
(***************************************************************************)
ProbeScript ==
    <<"t","e","l","l"," ","a","p","p","l","i","c","a","t","i","o","n"," ","\"","T","e",
      "r","m","i","n","a","l","\""," ","t","o"," ","r","e","t","u","r","n"," ","\"","a",
      "v","a","i","l","a","b","l","e","\"">>

Available ==
    <<"a","v","a","i","l","a","b","l","e">>

ErrorSentinel ==
    <<"E","r","r","o","r">>

ScriptHead ==
    <<"\n"," "," "," "," "," "," ","t","e","l","l"," ","a","p","p","l","i","c","a","t",
      "i","o","n"," ","\"","T","e","r","m","i","n","a","l","\"","\n"," "," "," "," ",
      " "," "," "," ","t","e","l","l"," ">>

GetNameBody ==
    <<"\n"," "," "," "," "," "," "," "," "," "," ","r","e","t","u","r","n"," ","n","a",
      "m","e"," ","o","f"," ","i","t">>

GetBoundsBody ==
    <<"\n"," "," "," "," "," "," "," "," "," "," ","r","e","t","u","r","n"," ","b",
      "o","u","n","d","s"," ","o","f"," ","i","t">>

SetIndexBody ==
    <<"\n"," "," "," "," "," "," "," "," "," "," ","s","e","t"," ","i","n","d","e","x",
      " ","o","f"," ","i","t"," ","t","o"," ">>

ScriptTail ==
    <<"\n"," "," "," "," "," "," "," "," ","e","n","d"," ","t","e","l","l","\n"," "," ",
      " "," "," "," ","e","n","d"," ","t","e","l","l","\n"," "," "," "," ">>

UnavailableMessage ==
    <<"A","p","p","l","i","c","a","t","i","o","n"," ","i","s"," ","n","o","t"," ","a",
      "v","a","i","l","a","b","l","e"," ","o","r"," ","n","o","t"," ","r","u","n","n",
      "i","n","g">>

UnknownToolPrefix ==
    <<"U","n","k","n","o","w","n"," ","t","o","o","l",":"," ">>

AppleScriptErrorPrefix ==
    <<"A","p","p","l","e","S","c","r","i","p","t"," ","e","r","r","o","r",":"," ">>

TargetWindowRequired ==
    <<"t","a","r","g","e","t","_","w","i","n","d","o","w","_","r","e","q","u","i","r",
      "e","d","_","s","t","r","i","n","g"," ","i","s"," ","r","e","q","u","i","r","e",
      "d"," ","a","n","d"," ","m","u","s","t"," ","b","e"," ","a"," ","s","t","r","i",
      "n","g">>

ValueIntegerRequired ==
    <<"v","a","l","u","e","_","r","e","q","u","i","r","e","d","_","i","n","t","e","g",
      "e","r"," ","i","s"," ","r","e","q","u","i","r","e","d">>

PropertySetMessage ==
    <<"P","r","o","p","e","r","t","y"," ","s","e","t"," ","s","u","c","c","e","s","s",
      "f","u","l","l","y">>

ArgsTypeErrorMessage ==
    <<"C","a","n","n","o","t"," ","r","e","a","d"," ","p","r","o","p","e","r","t","i",
      "e","s"," ","o","f"," ","u","n","d","e","f","i","n","e","d"," ","(","r","e","a",
      "d","i","n","g"," ","'","t","a","r","g","e","t","_","w","i","n","d","o","w","_",
      "r","e","q","u","i","r","e","d","_","s","t","r","i","n","g","'",")">>

CommandFailedPrefix ==
    <<"C","o","m","m","a","n","d"," ","f","a","i","l","e","d",":"," ","a","t","t","e",
      "m","p","t"," ">>

PrintFileTool ==
    <<"p","r","i","n","t","_","f","i","l","e">>

PrintArgsTypeErrorMessage ==
    <<"C","a","n","n","o","t"," ","r","e","a","d"," ","p","r","o","p","e","r","t","i",
      "e","s"," ","o","f"," ","u","n","d","e","f","i","n","e","d"," ","(","r","e","a",
      "d","i","n","g"," ","'","d","i","r","e","c","t","_","p","a","r","a","m","e","t",
      "e","r","_","r","e","q","u","i","r","e","d","_","l","i","s","t","_","o","f","_",
      "f","i","l","e","'",")">>

GetNameOfWindowTool ==
    <<"g","e","t","_","n","a","m","e","_","o","f","_","w","i","n","d","o","w">>

SetIndexOfWindowTool ==
    <<"s","e","t","_","i","n","d","e","x","_","o","f","_","w","i","n","d","o","w">>

GetBoundsOfWindowTool ==
    <<"g","e","t","_","b","o","u","n","d","s","_","o","f","_","w","i","n","d","o",
      "w">>

NoSuchTool ==
    <<"n","o","_","s","u","c","h","_","t","o","o","l">>

Window1 ==
    <<"w","i","n","d","o","w"," ","1">>

WindowMain ==
    <<"w","i","n","d","o","w"," ","\"","M","a","i","n","\"">>

AppHead ==
    <<"\n"," "," "," "," "," "," ","t","e","l","l"," ","a","p","p","l","i","c","a",
      "t","i","o","n"," ","\"","T","e","r","m","i","n","a","l","\"","\n"," "," "," ",
      " "," "," "," "," ">>

AppTail ==
    <<"\n"," "," "," "," "," "," ","e","n","d"," ","t","e","l","l","\n"," "," "," ",
      " ">>

CloseBody ==
    <<"\n"," "," "," "," "," "," "," "," "," "," ","c","l","o","s","e"," ","i","t">>

PrintCommand ==
    <<"p","r","i","n","t"," ">>

DoScriptCommand ==
    <<"d","o"," ","s","c","r","i","p","t">>

SavingClause ==
    <<" ","s","a","v","i","n","g"," ">>

SavingInClause ==
    <<" ","s","a","v","i","n","g"," ","i","n"," ">>

WithPropertiesClause ==
    <<" ","w","i","t","h"," ","p","r","o","p","e","r","t","i","e","s"," ">>

PrintDialogClause ==
    <<" ","p","r","i","n","t"," ","d","i","a","l","o","g"," ">>

DirectTextClause ==
    <<" ","\"">>

WithCommandClause ==
    <<" ","w","i","t","h"," ","c","o","m","m","a","n","d"," ","\"">>

InClause ==
    <<" ","i","n"," ">>

TargetDocumentRequired ==
    <<"t","a","r","g","e","t","_","d","o","c","u","m","e","n","t","_","r","e","q","u",
      "i","r","e","d","_","s","t","r","i","n","g"," ","i","s"," ","r","e","q","u","i",
      "r","e","d"," ","a","n","d"," ","m","u","s","t"," ","b","e"," ","a"," ","s","t",
      "r","i","n","g">>

DirectParameterRequired ==
    <<"d","i","r","e","c","t","_","p","a","r","a","m","e","t","e","r","_","r","e","q",
      "u","i","r","e","d","_","l","i","s","t","_","o","f","_","f","i","l","e"," ","i",
      "s"," ","r","e","q","u","i","r","e","d">>

Document1 ==
    <<"d","o","c","u","m","e","n","t"," ","1">>

StdoutAvailable ==
    <<"a","v","a","i","l","a","b","l","e","\n">>

StdoutError ==
    <<"E","r","r","o","r","\n">>

StdoutName ==
    <<"z","s","h","\n">>

StdoutErrorPadded ==
    <<" ","E","r","r","o","r"," ","\n">>

(***************************************************************************)
(* The server: constants, request lines                                    *)
(***************************************************************************)
MAX_RETRIES == 3
RETRY_DELAY == 1000

NumReqs == 2     \* lines the transport delivers
Reqs == 1..NumReqs

Obj(fields) == [t |-> "object", f |-> fields]

Args(target, value) ==
    Obj([target_window_required_string |-> target, value_required_integer |-> value])

\* the arguments object of a print_file call
PrintArgs(direct_parameter, with_properties, print_dialog) ==
    Obj([direct_parameter_required_list_of_file |-> direct_parameter,
         with_properties_optional_print_settings |-> with_properties,
         print_dialog_optional_boolean |-> print_dialog])

Params(name, arguments) == Obj([name |-> name, arguments |-> arguments])

\* the lines a client can send: not JSON at all, or a request object
Lines ==
    { [json |-> FALSE] }
    \cup { [json |-> TRUE, method |-> m, params |-> Undefined] :
             m \in {"initialize", "initialized", "bogus", "tools/list", "tools/call"} }
    \cup { [json |-> TRUE, method |-> "tools/call", params |-> p] :
             p \in { Params(Str(NoSuchTool), Args(Str(Window1), Undefined)),
                     Params(Str(GetNameOfWindowTool), Undefined),
                     Params(Str(GetNameOfWindowTool), Args(Str(Window1), Undefined)),
                     Params(Str(SetIndexOfWindowTool), Args(Str(Window1), Undefined)) } }

\* what the interpreter can print
Stdouts == {StdoutAvailable, StdoutError}

\* a wider choice of lines and outputs, for one request at a time
Targets ==
    { Undefined, Null, Str(<<>>), Num(5, 0), Bool(TRUE), Str(Window1), Str(WindowMain) }

Values == { Undefined, Null, Num(2, 0), Str(<<"2">>), Str(<<"a">>) }

ToolNames ==
    { GetNameOfWindowTool, GetBoundsOfWindowTool, SetIndexOfWindowTool, NoSuchTool }

\* the files and the optional arguments a print_file call is given
PrintFiles == { Undefined, Str(<<>>), Str(<<"l","s">>) }

PrintOptions == { Undefined, Null, Bool(FALSE), Bool(TRUE), Num(0, 0), Str(<<>>) }

AnyLines ==
    Lines
    \cup { [json |-> TRUE, method |-> "tools/call", params |-> Params(Str(n), a)] :
             n \in ToolNames,
             a \in {Undefined} \cup { Args(t, v) : t \in Targets, v \in Values } }
    \cup { [json |-> TRUE, method |-> "tools/call",
            params |-> Params(Str(PrintFileTool), a)] :
             a \in {Undefined}
                   \cup { PrintArgs(d, w, p) :
                            d \in PrintFiles, w \in PrintOptions, p \in PrintOptions } }

AnyStdouts == Stdouts \cup {StdoutName, StdoutErrorPadded, <<>>}

\* error.message of the rejection execFileAsync gives attempt n (a non-zero exit,
\* the timeout or the output cap); the attempt's number keeps the errors of
\* different attempts apart
attemptError(n) == CommandFailedPrefix \o NatToDigits(n)

(***************************************************************************)
(* The operations, each in two halves: up to its await of                  *)
(* executeAppleScript (validation and composition), and after it           *)
(***************************************************************************)
\* !x
falsy(x) ==
    \/ x.t \in {"undefined", "null"}
    \/ x.t = "string" /\ x.v = <<>>
    \/ x.t = "number" /\ x.m = 0
    \/ x.t = "boolean" /\ ~x.v

Throw(m) == [kind |-> "throw", message |-> m]
Exec(s) == [kind |-> "exec", script |-> s]

\* getNameOfWindow, lines 3463-3478
getNameOfWindowStart(target) ==
    IF falsy(target) \/ typeof(target) # "string"
    THEN Throw(TargetWindowRequired)
    ELSE Exec(ScriptHead \o String(escapeForAppleScript(target)) \o GetNameBody
              \o ScriptTail)

\* a getter that reports success whatever the interpreter printed
getNameOfWindowReturnAlwaysTrue(target, script, result) ==
    [success |-> Bool(TRUE),
     value   |-> Str(result),
     script  |-> Str(script),
     window  |-> target]

\* getNameOfWindow, lines 3479-3485
getNameOfWindowReturn(target, script, result) ==
    [success |-> Bool(result # ErrorSentinel),
     value   |-> Str(result),
     script  |-> Str(script),
     window  |-> target]

\* a getter that names the target again in its body instead of saying it
getBoundsOfWindowStartRepeat(target) ==
    IF falsy(target) \/ typeof(target) # "string"
    THEN Throw(TargetWindowRequired)
    ELSE Exec(ScriptHead \o String(escapeForAppleScript(target))
              \o SubSeq(GetBoundsBody, 1, Len(GetBoundsBody) - 2)
              \o String(escapeForAppleScript(target)) \o ScriptTail)

\* getBoundsOfWindow, lines 3571-3586
getBoundsOfWindowStart(target) ==
    IF falsy(target) \/ typeof(target) # "string"
    THEN Throw(TargetWindowRequired)
    ELSE Exec(ScriptHead \o String(escapeForAppleScript(target)) \o GetBoundsBody
              \o ScriptTail)

\* getBoundsOfWindow, lines 3586-3592
getBoundsOfWindowReturn(target, script, result) ==
    [success |-> Bool(result # ErrorSentinel),
     value   |-> Str(result),
     script  |-> Str(script),
     window  |-> target]

\* a setter that does not check that its value is there
setIndexOfWindowStartNoValueCheck(target, value) ==
    IF falsy(target) \/ typeof(target) # "string"
    THEN Throw(TargetWindowRequired)
    ELSE Exec(ScriptHead \o String(castAndEscape(target)) \o SetIndexBody
              \o valueForScript(castAndEscape(value)) \o ScriptTail)

\* setIndexOfWindow, lines 3535-3559
setIndexOfWindowStart(target, value) ==
    IF falsy(target) \/ typeof(target) # "string"
    THEN Throw(TargetWindowRequired)
    ELSE IF value.t \in {"undefined", "null"}
    THEN Throw(ValueIntegerRequired)
    ELSE Exec(ScriptHead \o String(castAndEscape(target)) \o SetIndexBody
              \o valueForScript(castAndEscape(value)) \o ScriptTail)

SetBoundsBody ==
    <<"\n"," "," "," "," "," "," "," "," "," "," ","s","e","t"," ","b","o","u","n","d",
      "s"," ","o","f"," ","i","t"," ","t","o"," ">>

ValueRectangleRequired ==
    <<"v","a","l","u","e","_","r","e","q","u","i","r","e","d","_","r","e","c","t","a",
      "n","g","l","e"," ","i","s"," ","r","e","q","u","i","r","e","d">>

\* setBoundsOfWindow, lines 3595-3619
setBoundsOfWindowStart(target, value) ==
    IF falsy(target) \/ typeof(target) # "string"
    THEN Throw(TargetWindowRequired)
    ELSE IF value.t \in {"undefined", "null"}
    THEN Throw(ValueRectangleRequired)
    ELSE Exec(ScriptHead \o String(castAndEscape(target)) \o SetBoundsBody
              \o valueForScript(castAndEscape(value)) \o ScriptTail)

\* setIndexOfWindow, lines 3561-3568
setIndexOfWindowReturn(target, value, script, result) ==
    [success |-> Bool(result # ErrorSentinel),
     message |-> Str(PropertySetMessage),
     value   |-> value,
     script  |-> Str(script),
     window  |-> target]

\* an optional argument's cast: `x ? castAndEscape(x) : null` (line 3959)
castOptional(x) == IF falsy(x) THEN Null ELSE castAndEscape(x)

\* a command's "valueForScript" of an optional argument (line 3960): a cast
\* string that is not empty and starts neither with { nor with date goes in
\* double quotes, its own double quotes made single
clauseValue(casted) ==
    IF /\ ~falsy(casted)
       /\ typeof(casted) = "string"
       /\ ~startsWith(casted.v, <<"{">>)
       /\ ~startsWith(casted.v, <<"d","a","t","e">>)
    THEN <<DQ>> \o replaceAll(casted.v, DQ, <<SQ>>) \o <<DQ>>
    ELSE String(casted)

\* `${x ? keyword + text : ''}`
clause(x, keyword, text) == IF falsy(x) THEN <<>> ELSE keyword \o text

\* a close that puts its saving in clause first
closeForDocumentSwapped(target, saving, saving_in) ==
    IF falsy(target) \/ typeof(target) # "string"
    THEN Throw(TargetDocumentRequired)
    ELSE Exec(ScriptHead \o String(castAndEscape(target)) \o CloseBody
              \o clause(saving_in, SavingInClause, clauseValue(castOptional(saving_in)))
              \o clause(saving, SavingClause, clauseValue(castOptional(saving)))
              \o ScriptTail)

\* closeForDocument, lines 3953-3986, up to its await
closeForDocument(target, saving, saving_in) ==
    IF falsy(target) \/ typeof(target) # "string"
    THEN Throw(TargetDocumentRequired)
    ELSE Exec(ScriptHead \o String(castAndEscape(target)) \o CloseBody
              \o clause(saving, SavingClause, clauseValue(castOptional(saving)))
              \o clause(saving_in, SavingInClause, clauseValue(castOptional(saving_in)))
              \o ScriptTail)

\* printFile, lines 4131-4146, up to its await
printFile(direct_parameter, with_properties, print_dialog) ==
    IF direct_parameter.t \in {"undefined", "null"}
    THEN Throw(DirectParameterRequired)
    ELSE Exec(AppHead \o PrintCommand \o String(castOptional(direct_parameter))
              \o clause(with_properties, WithPropertiesClause,
                        String(castOptional(with_properties)))
              \o clause(print_dialog, PrintDialogClause,
                        String(castOptional(print_dialog)))
              \o AppTail)

\* x || null
orNull(x) == IF falsy(x) THEN Null ELSE x

\* printFile, lines 4146-4154: what it returns once its script has run
printFileReturn(direct_parameter, with_properties, print_dialog, script, result) ==
    [success          |-> Bool(result # ErrorSentinel),
     message          |-> Str(result),
     script           |-> Str(script),
     direct_parameter |-> orNull(direct_parameter),
     with_properties  |-> orNull(with_properties),
     print_dialog     |-> orNull(print_dialog)]

\* doScript, lines 5058-5069, up to its await
doScript(direct_parameter, with_command, inParam) ==
    Exec(AppHead \o DoScriptCommand
         \o clause(direct_parameter, DirectTextClause,
                   String(castOptional(direct_parameter)) \o <<DQ>>)
         \o clause(with_command, WithCommandClause,
                   String(castOptional(with_command)) \o <<DQ>>)
         \o clause(inParam, InClause, String(castOptional(inParam)))
         \o AppTail)

GetUrlCommand ==
    <<"g","e","t"," ","U","R","L"," ","\"">>

DirectTextRequired ==
    <<"d","i","r","e","c","t","_","p","a","r","a","m","e","t","e","r","_","r","e","q",
      "u","i","r","e","d","_","t","e","x","t"," ","i","s"," ","r","e","q","u","i","r",
      "e","d">>

\* getUrl, lines 5080-5091, up to its await
getUrl(direct_parameter) ==
    IF direct_parameter.t \in {"undefined", "null"}
    THEN Throw(DirectTextRequired)
    ELSE Exec(AppHead \o GetUrlCommand \o String(castOptional(direct_parameter))
              \o <<DQ>> \o AppTail)

OpenCommand ==
    <<"o","p","e","n"," ">>

\* open, lines 3931-3942, up to its await
open(direct_parameter) ==
    IF direct_parameter.t \in {"undefined", "null"}
    THEN Throw(DirectParameterRequired)
    ELSE Exec(AppHead \o OpenCommand \o String(castOptional(direct_parameter))
              \o AppTail)

MakeWindowCommand ==
    <<"m","a","k","e"," ","n","e","w"," ","w","i","n","d","o","w"," ">>

MakeTabBody ==
    <<"\n"," "," "," "," "," "," "," "," "," "," ","m","a","k","e"," ","n","e","w"," ",
      "t","a","b"," ","a","t"," ","i","t"," ">>

AtClause ==
    <<" ","a","t"," ">>

WithDataClause ==
    <<" ","w","i","t","h"," ","d","a","t","a"," ">>

WithPropertiesOpen ==
    <<" ","w","i","t","h"," ","p","r","o","p","e","r","t","i","e","s"," ","{">>

PropertySeparator ==
    <<",", " ">>

AtWindowRequired ==
    <<"a","t","_","r","e","q","u","i","r","e","d","_","l","o","c","a","t","i","o","n",
      "_","s","p","e","c","i","f","i","e","r","_","w","i","n","d","o","w"," ","i","s",
      " ","r","e","q","u","i","r","e","d"," ","a","n","d"," ","m","u","s","t"," ","b",
      "e"," ","a"," ","s","t","r","i","n","g">>

\* the properties of a new window and of a new tab, in the order their
\* commands declare them (lines 4708 and 4568)
WindowProperties ==
    << <<"i","n","d","e","x">>,
       <<"p","o","s","i","t","i","o","n">>,
       <<"f","r","a","m","e">>,
       <<"f","r","o","n","t","m","o","s","t">>,
       <<"z","o","o","m","e","d">>,
       <<"m","i","n","i","a","t","u","r","i","z","e","d">>,
       <<"s","i","z","e">>,
       <<"v","i","s","i","b","l","e">>,
       <<"o","r","i","g","i","n">>,
       <<"b","o","u","n","d","s">> >>

TabProperties ==
    << <<"f","o","n","t"," ","n","a","m","e">>,
       <<"c","u","r","s","o","r"," ","c","o","l","o","r">>,
       <<"t","i","t","l","e"," ","d","i","s","p","l","a","y","s"," ","c","u","s","t","o","m"," ","t","i","t","l","e">>,
       <<"c","u","s","t","o","m"," ","t","i","t","l","e">>,
       <<"b","a","c","k","g","r","o","u","n","d"," ","c","o","l","o","r">>,
       <<"b","o","l","d"," ","t","e","x","t"," ","c","o","l","o","r">>,
       <<"t","i","t","l","e"," ","d","i","s","p","l","a","y","s"," ","f","i","l","e"," ","n","a","m","e">>,
       <<"t","i","t","l","e"," ","d","i","s","p","l","a","y","s"," ","d","e","v","i","c","e"," ","n","a","m","e">>,
       <<"n","u","m","b","e","r"," ","o","f"," ","c","o","l","u","m","n","s">>,
       <<"n","u","m","b","e","r"," ","o","f"," ","r","o","w","s">>,
       <<"t","i","t","l","e"," ","d","i","s","p","l","a","y","s"," ","s","h","e","l","l"," ","p","a","t","h">>,
       <<"n","o","r","m","a","l"," ","t","e","x","t"," ","c","o","l","o","r">>,
       <<"c","l","e","a","n"," ","c","o","m","m","a","n","d","s">>,
       <<"s","e","l","e","c","t","e","d">>,
       <<"f","o","n","t"," ","s","i","z","e">>,
       <<"f","o","n","t"," ","a","n","t","i","a","l","i","a","s","i","n","g">>,
       <<"c","u","r","r","e","n","t"," ","s","e","t","t","i","n","g","s">>,
       <<"t","i","t","l","e"," ","d","i","s","p","l","a","y","s"," ","w","i","n","d","o","w"," ","s","i","z","e">> >>

\* one entry of the record (lines 4693-4700): a cast string that starts
\* neither with { nor with date goes in double quotes, its own double quotes
\* made single
propString(p) ==
    IF /\ typeof(castAndEscape(p.value)) = "string"
       /\ ~startsWith(castAndEscape(p.value).v, <<"{">>)
       /\ ~startsWith(castAndEscape(p.value).v, <<"d","a","t","e">>)
    THEN p.prop \o <<":", DQ>> \o replaceAll(castAndEscape(p.value).v, DQ, <<SQ>>)
         \o <<DQ>>
    ELSE p.prop \o <<":">> \o String(castAndEscape(p.value))

\* p.value !== undefined && p.value !== null && p.value !== ''
definedProp(p) == p.value.t \notin {"undefined", "null"} /\ p.value # Str(<<>>)

propStrings(definedProps) == [i \in 1..Len(definedProps) |-> propString(definedProps[i])]

\* buildPropertiesRecord, lines 4689-4702 (the same at 4546-4559)
buildPropertiesRecord(propertyParams) ==
    IF SelectSeq(propertyParams, definedProp) = <<>>
    THEN <<>>
    ELSE WithPropertiesOpen
         \o Join(propStrings(SelectSeq(propertyParams, definedProp)), PropertySeparator)
         \o <<"}">>

\* the array a make command hands buildPropertiesRecord: its properties in
\* declared order, each with the value of its argument
propertyParamsOf(props, values) ==
    [i \in 1..Len(props) |-> [prop |-> props[i], value |-> values[i]]]

\* makeWindow, lines 4671-4710, up to its await; values are the arguments
\* with_properties_optional_integer_index to ..._rectangle_bounds in order
makeWindow(at, with_data, values) ==
    Exec(AppHead \o MakeWindowCommand
         \o clause(at, AtClause, clauseValue(castOptional(at)))
         \o clause(with_data, WithDataClause, clauseValue(castOptional(with_data)))
         \o buildPropertiesRecord(propertyParamsOf(WindowProperties, values))
         \o AppTail)

\* makeTabOfWindow, lines 4519-4571, up to its await; values are the arguments
\* with_properties_optional_text_font_name to ..._title_displays_window_size
makeTabOfWindow(window, with_data, values) ==
    IF falsy(window) \/ typeof(window) # "string"
    THEN Throw(AtWindowRequired)
    ELSE Exec(ScriptHead \o String(castAndEscape(window)) \o MakeTabBody
              \o clause(with_data, WithDataClause, clauseValue(castOptional(with_data)))
              \o buildPropertiesRecord(propertyParamsOf(TabProperties, values))
              \o ScriptTail)

\* the switch of handleToolsCall (lines 2870-3284) up to the operation's await:
\* reading a property of a missing arguments object is a TypeError
toolStartOf(name, args) ==
    CASE name = Str(GetNameOfWindowTool) ->
           IF args.t = "undefined" THEN Throw(ArgsTypeErrorMessage)
           ELSE getNameOfWindowStart(args.f.target_window_required_string)
      [] name = Str(GetBoundsOfWindowTool) ->
           IF args.t = "undefined" THEN Throw(ArgsTypeErrorMessage)
           ELSE getBoundsOfWindowStart(args.f.target_window_required_string)
      [] name = Str(SetIndexOfWindowTool) ->
           IF args.t = "undefined" THEN Throw(ArgsTypeErrorMessage)
           ELSE setIndexOfWindowStart(args.f.target_window_required_string,
                                      args.f.value_required_integer)
      [] name = Str(PrintFileTool) ->
           IF args.t = "undefined" THEN Throw(PrintArgsTypeErrorMessage)
           ELSE printFile(args.f.direct_parameter_required_list_of_file,
                          args.f.with_properties_optional_print_settings,
                          args.f.print_dialog_optional_boolean)
      [] OTHER -> Throw(UnknownToolPrefix \o String(name))

toolStart(params) == toolStartOf(params.f.name, params.f.arguments)

\* the operation's result object, once its script has returned
toolReturnOf(name, args, script, result) ==
    IF name = Str(GetNameOfWindowTool)
    THEN getNameOfWindowReturn(args.f.target_window_required_string, script, result)
    ELSE IF name = Str(GetBoundsOfWindowTool)
    THEN getBoundsOfWindowReturn(args.f.target_window_required_string, script, result)
    ELSE IF name = Str(PrintFileTool)
    THEN printFileReturn(args.f.direct_parameter_required_list_of_file,
                         args.f.with_properties_optional_print_settings,
                         args.f.print_dialog_optional_boolean, script, result)
    ELSE setIndexOfWindowReturn(args.f.target_window_required_string,
                                args.f.value_required_integer, script, result)

toolReturn(params, script, result) ==
    toolReturnOf(params.f.name, params.f.arguments, script, result)

(***************************************************************************)
(* Responses.  The text of a content item is kept as the object            *)
(* JSON.parse would give back from it: JSON.stringify leaves out the       *)
(* properties whose value is undefined.                                    *)
(***************************************************************************)
dropUndefined(fields) ==
    [k \in {j \in DOMAIN fields : fields[j].t # "undefined"} |-> fields[k]]

stringify(o) ==
    [k \in {j \in DOMAIN o : o[j].t # "undefined"} |->
        IF o[k].t = "object" THEN Obj(dropUndefined(o[k].f)) ELSE o[k]]

\* an envelope whose id is kept in one place for all requests and never renewed
contentResponseFirstId(id, o) ==
    [jsonrpc |-> "2.0", id |-> 1,
     result |-> [content |-> << [type |-> "text", text |-> stringify(o)] >>]]

contentResponse(id, o) ==
    [jsonrpc |-> "2.0", id |-> id,
     result |-> [content |-> << [type |-> "text", text |-> stringify(o)] >>]]

\* lines 2851-2863
unavailableResponse(request) ==
    contentResponse(request.id,
        [success |-> Bool(FALSE), error |-> Str(UnavailableMessage)])

\* lines 3286-3295
resultResponse(request, result) == contentResponse(request.id, result)

\* an envelope that does not say which tool and arguments failed
errorResponseBare(request, message) ==
    contentResponse(request.id, [success |-> Bool(FALSE), error |-> Str(message)])

\* lines 3298-3315
errorResponse(request, message) ==
    contentResponse(request.id,
        [success |-> Bool(FALSE),
         error   |-> Str(message),
         tool    |-> request.params.f.name,
         args    |-> request.params.f.arguments])

\* handleInitialize, lines 174-191
initializeResponse(request) ==
    [jsonrpc |-> "2.0", id |-> request.id,
     result |-> [protocolVersion |-> "2024-11-05",
                 capabilities |-> [tools |-> "{}"],
                 serverInfo |-> [name |-> "terminal-applescript",
                                 version |-> "0.1.0"]]]

\* handleToolsList, lines 198-2842 (the list of tool schemas is left out)
toolsListResponse(request) ==
    [jsonrpc |-> "2.0", id |-> request.id, result |-> [tools |-> "schemas"]]

(***************************************************************************)
(* The execution envelope and the dispatcher as a state machine            *)
(***************************************************************************)
NoLine == [json |-> FALSE]

NoCall ==
    [script |-> <<>>, retries |-> MAX_RETRIES, attempt |-> 0, phase |-> "none",
     log |-> <<>>, result |-> Undefined]

\* what a call's log holds: the attempts started, how each ended and with what
\* (the stdout, the error's message), and the backoff timers set
Spawned(n) == <<"spawn", n>>
Resolved(n, stdout) == <<"ok", n, stdout>>
Rejected(n, message) == <<"fail", n, message>>
Waited(ms) == <<"wait", ms>>

\* executeAppleScript(script) entered: retries defaults to MAX_RETRIES, and the
\* loop's first pass starts the first osascript (lines 102-112)
newCall(script) ==
    [script |-> script, retries |-> MAX_RETRIES, attempt |-> 0, phase |-> "running",
     log |-> <<Spawned(0)>>, result |-> Undefined]

\* line 116
returned(stdout) == Str(trim(stdout))

\* a loop that goes one attempt too far
isLastAttemptLate(attempt, retries) == attempt = retries + 1

\* a loop that stops one attempt early
isLastAttemptEarly(attempt, retries) == attempt + 1 = retries

\* line 118
isLastAttempt(attempt, retries) == attempt = retries

\* line 120
thrown(message) == Str(AppleScriptErrorPrefix \o message)

\* a backoff that grows by RETRY_DELAY each time instead of doubling
backoffDelayLinear(attempt) == RETRY_DELAY * (attempt + 1)

\* line 123
backoffDelay(attempt) == RETRY_DELAY * Pow(2, attempt)

\* a probe that takes any output for the sentinel
checkTerminalAvailableAnyOutput(c) == c.phase = "returned"

\* checkTerminalAvailable, lines 94-98: the probe's call c has ended
checkTerminalAvailable(c) == c.phase = "returned" /\ c.result = Str(Available)

\* the request object of line r
Request(r, line) ==
    IF line.json
    THEN [json |-> TRUE, id |-> r, method |-> line.method, params |-> line.params]
    ELSE line

\* the entry execs keeps of a call: which, how it ended, and what osascript
\* printed when it returned
Began(kind) == [kind |-> kind, phase |-> "running", stdout |-> <<>>]
Ended(kind, c) ==
    [kind |-> kind, phase |-> c.phase,
     stdout |-> IF c.phase = "returned" THEN c.log[Len(c.log)][3] ELSE <<>>]

\* an attempt counter kept in one place for all the calls in flight
endCallShared(r, c) ==
    /\ call' = [q \in Reqs |-> IF q = r THEN c
                                ELSE [call[q] EXCEPT !.attempt = c.attempt]]
    /\ execs' = [execs EXCEPT ![r] = [@ EXCEPT ![Len(@)] = Ended(@.kind, c)]]

endCall(r, c) ==
    /\ call' = [call EXCEPT ![r] = c]
    /\ execs' = [execs EXCEPT ![r] = [@ EXCEPT ![Len(@)] = Ended(@.kind, c)]]

\* sendResponse (lines 7662-7666)
sendResponse(response) == output' = Append(output, response)

\* the handler of request r ends with its call c ended and one response written
Finish(r, c, response) ==
    /\ pc' = [pc EXCEPT ![r] = "done"]
    /\ endCall(r, c)
    /\ sendResponse(response)

\* handleToolsCall after checkTerminalAvailable gave true (lines 2869-3296): the
\* operation validates its arguments, composes its script and calls
\* executeAppleScript, or throws into the catch of line 3298
afterProbeWith(r, c, st) ==
    IF st.kind = "throw"
    THEN Finish(r, c, errorResponse(req[r], st.message))
    ELSE /\ pc' = [pc EXCEPT ![r] = "op"]
         /\ call' = [call EXCEPT ![r] = newCall(st.script)]
         /\ execs' = [execs EXCEPT ![r] =
                        Append([@ EXCEPT ![Len(@)] = Ended(@.kind, c)], Began("op"))]
         /\ UNCHANGED output

\* a dispatcher that probes again when the probe said unavailable
probeEndedProbeAgain(r, c) ==
    IF ~checkTerminalAvailable(c)
    THEN /\ call' = [call EXCEPT ![r] = newCall(ProbeScript)]
         /\ execs' = [execs EXCEPT ![r] =
                        Append([@ EXCEPT ![Len(@)] = Ended(@.kind, c)], Began("probe"))]
         /\ UNCHANGED <<pc, output>>
    ELSE afterProbeWith(r, c, toolStart(req[r].params))

\* handleToolsCall once the probe's call c has ended (lines 2850-2867)
probeEnded(r, c) ==
    IF ~checkTerminalAvailable(c)
    THEN Finish(r, c, unavailableResponse(req[r]))
    ELSE afterProbeWith(r, c, toolStart(req[r].params))

\* handleToolsCall once the operation's call c has returned (lines 3286-3296)
opReturned(r, c) ==
    Finish(r, c, resultResponse(req[r],
                                toolReturn(req[r].params, c.script, c.result.v)))

\* handleToolsCall's catch once the operation's call c has thrown (line 3298)
opThrew(r, c) == Finish(r, c, errorResponse(req[r], c.result.v))

\* where an error thrown while a message is handled leaves its handler, were
\* there no catch around the handler's body: the promise handleMessage returned
\* is rejected with nobody to handle it, which ends the process
afterErrorUncaught == "crashed"

\* the catch of lines 168-170 logs the error and the handler returns
afterError == "done"

\* the process runs: no error has escaped a handler
Alive == \A q \in Reqs : pc[q] # "crashed"

\* handleMessage (lines 153-172) on the next line of stdin, up to its first await
handleMessageFrom(r, lines) ==
    /\ Alive
    /\ pc[r] = "new"
    /\ \A q \in Reqs : q < r => pc[q] # "new"
    /\ \E line \in lines :
        /\ req' = [req EXCEPT ![r] = Request(r, line)]
        /\ IF /\ line.json
              /\ line.method = "tools/call"
              /\ line.params.t # "undefined"
           THEN \* handleToolsCall: the availability probe starts (line 2850)
                /\ pc' = [pc EXCEPT ![r] = "probe"]
                /\ call' = [call EXCEPT ![r] = newCall(ProbeScript)]
                /\ execs' = [execs EXCEPT ![r] = Append(@, Began("probe"))]
                /\ UNCHANGED output
           ELSE IF line.json /\ line.method = "tools/list"
           THEN /\ pc' = [pc EXCEPT ![r] = "done"]
                /\ sendResponse(toolsListResponse(Request(r, line)))
                /\ UNCHANGED <<call, execs>>
           ELSE IF line.json /\ line.method = "initialize"
           THEN /\ pc' = [pc EXCEPT ![r] = "done"]
                /\ sendResponse(initializeResponse(Request(r, line)))
                /\ UNCHANGED <<call, execs>>
           ELSE IF ~line.json \/ line.method = "tools/call"
           THEN \* JSON.parse threw, or line 2845 read params.name of a
                \* request without params: nothing is written
                /\ pc' = [pc EXCEPT ![r] = afterError]
                /\ UNCHANGED <<call, execs, output>>
           ELSE \* handleInitialized, or the method is unknown (line 166)
                /\ pc' = [pc EXCEPT ![r] = "done"]
                /\ UNCHANGED <<call, execs, output>>
        \* handleInitialized, lines 193-196
        /\ initialized' = (initialized \/ (line.json /\ line.method = "initialized"))
    /\ UNCHANGED castVars

handleMessage(r) == handleMessageFrom(r, Lines)

\* the call of request r with its running attempt resolved (lines 113-116)
resolvedCall(c, stdout) ==
    [c EXCEPT !.phase = "returned",
              !.log = Append(@, Resolved(c.attempt, stdout)),
              !.result = returned(stdout)]

\* the call with its last attempt rejected (lines 118-121)
rejectedCall(c, message) ==
    [c EXCEPT !.phase = "thrown",
              !.log = Append(@, Rejected(c.attempt, message)),
              !.result = thrown(message)]

\* the call with an earlier attempt rejected and the backoff timer set
\* (lines 122-124)
waitingCall(c, message) ==
    [c EXCEPT !.phase = "waiting",
              !.log = @ \o <<Rejected(c.attempt, message),
                             Waited(backoffDelay(c.attempt))>>]

\* the call with its timer fired and the loop's next attempt started
\* (lines 103-112)
retriedCall(c) ==
    [c EXCEPT !.phase = "running",
              !.attempt = @ + 1,
              !.log = Append(@, Spawned(c.attempt + 1))]

\* an osascript attempt resolves: executeAppleScript returns to its caller,
\* which goes on
attemptSucceedsWith(r, stdouts) ==
    /\ Alive
    /\ pc[r] \in {"probe", "op"}
    /\ call[r].phase = "running"
    /\ \E stdout \in stdouts :
        IF pc[r] = "probe"
        THEN probeEnded(r, resolvedCall(call[r], stdout))
        ELSE opReturned(r, resolvedCall(call[r], stdout))
    /\ UNCHANGED <<req, initialized, castVars>>

attemptSucceeds(r) == attemptSucceedsWith(r, Stdouts)

\* an osascript attempt rejects: the last attempt's error is rethrown, an
\* earlier one starts the backoff timer
attemptFails(r) ==
    /\ Alive
    /\ pc[r] \in {"probe", "op"}
    /\ call[r].phase = "running"
    /\ IF isLastAttempt(call[r].attempt, call[r].retries)
       THEN IF pc[r] = "probe"
            THEN probeEnded(r, rejectedCall(call[r], attemptError(call[r].attempt)))
            ELSE opThrew(r, rejectedCall(call[r], attemptError(call[r].attempt)))
       ELSE /\ call' = [call EXCEPT ![r] =
                          waitingCall(@, attemptError(call[r].attempt))]
            /\ UNCHANGED <<pc, execs, output>>
    /\ UNCHANGED <<req, initialized, castVars>>

\* the backoff timer fires and the loop starts the next attempt
backoffElapses(r) ==
    /\ Alive
    /\ pc[r] \in {"probe", "op"}
    /\ call[r].phase = "waiting"
    /\ call' = [call EXCEPT ![r] = retriedCall(@)]
    /\ UNCHANGED <<pc, req, execs, output, initialized, castVars>>

Init ==
    /\ pc = [r \in Reqs |-> "new"]
    /\ req = [r \in Reqs |-> NoLine]
    /\ call = [r \in Reqs |-> NoCall]
    /\ execs = [r \in Reqs |-> <<>>]
    /\ output = <<>>
    /\ initialized = FALSE
    /\ cin = Null
    /\ cop = "none"
    /\ cout = Null

Next ==
    \E r \in Reqs :
        \/ handleMessage(r)
        \/ attemptSucceeds(r)
        \/ attemptFails(r)
        \/ backoffElapses(r)

Spec == Init /\ [][Next]_vars

(***************************************************************************)
(* One request at a time, drawn from the wider lines and outputs: the      *)
(* lines after the first are blank, which handleMessage is not given       *)
(* (line 146)                                                              *)
(***************************************************************************)
OneInit ==
    /\ pc = [r \in Reqs |-> IF r = 1 THEN "new" ELSE "done"]
    /\ req = [r \in Reqs |-> NoLine]
    /\ call = [r \in Reqs |-> NoCall]
    /\ execs = [r \in Reqs |-> <<>>]
    /\ output = <<>>
    /\ initialized = FALSE
    /\ cin = Null
    /\ cop = "none"
    /\ cout = Null

OneNext ==
    \/ handleMessageFrom(1, AnyLines)
    \/ attemptSucceedsWith(1, AnyStdouts)
    \/ attemptFails(1)
    \/ backoffElapses(1)

SpecOne == OneInit /\ [][OneNext]_vars

\* the same with the scheduling the runtime gives: a line read is handled,
\* every osascript attempt ends (it exits, or the timeout of line 109 kills
\* it), and a timer set fires
attemptEnds(r) == attemptSucceedsWith(r, AnyStdouts) \/ attemptFails(r)

SpecOneFair ==
    /\ SpecOne
    /\ WF_vars(handleMessageFrom(1, AnyLines))
    /\ WF_vars(attemptEnds(1))
    /\ WF_vars(backoffElapses(1))

(***************************************************************************)
(* The caster and the escaper, each applied once to a drawn value          *)
(***************************************************************************)
applyEscape ==
    /\ cop = "none"
    /\ cop' = "escapeForAppleScript"
    /\ cout' = escapeForAppleScript(cin)
    /\ UNCHANGED <<cin, srvVars>>

applyCast ==
    /\ cop = "none"
    /\ cop' = "universalCast"
    /\ cout' = universalCast(cin)
    /\ UNCHANGED <<cin, srvVars>>

applyCastAndEscape ==
    /\ cop = "none"
    /\ cop' = "castAndEscape"
    /\ cout' = castAndEscape(cin)
    /\ UNCHANGED <<cin, srvVars>>

\* a property setter's value, past its check that the value is neither
\* undefined nor null: cast, escaped and formatted for the script
applySetValue ==
    /\ cop = "none"
    /\ cin.t \notin {"undefined", "null"}
    /\ cop' = "valueForScript"
    /\ cout' = Str(valueForScript(castAndEscape(cin)))
    /\ UNCHANGED <<cin, srvVars>>

\* a settings set setter's value, past its check that the value is neither
\* undefined nor null: cast, escaped and inserted as it is
applySetReference ==
    /\ cop = "none"
    /\ cin.t \notin {"undefined", "null"}
    /\ cop' = "referenceForScript"
    /\ cout' = Str(referenceForScript(castAndEscape(cin)))
    /\ UNCHANGED <<cin, srvVars>>

\* the bounds a window is given
SomeBounds == <<"{","0",","," ","0",","," ","8","0","0",","," ","6","0","0","}">>

\* the getter and the setter of a window's bounds, addressed by the drawn value
applyGetBounds ==
    /\ cop = "none"
    /\ cop' = "getBoundsOfWindow"
    /\ cout' = getBoundsOfWindowStart(cin)
    /\ UNCHANGED <<cin, srvVars>>

applySetBounds ==
    /\ cop = "none"
    /\ cop' = "setBoundsOfWindow"
    /\ cout' = setBoundsOfWindowStart(cin, Str(SomeBounds))
    /\ UNCHANGED <<cin, srvVars>>

\* the two commands that take a text, given the drawn value
applyDoScript ==
    /\ cop = "none"
    /\ cop' = "doScript"
    /\ cout' = doScript(cin, Undefined, Undefined)
    /\ UNCHANGED <<cin, srvVars>>

applyGetUrl ==
    /\ cop = "none"
    /\ cop' = "getUrl"
    /\ cout' = getUrl(cin)
    /\ UNCHANGED <<cin, srvVars>>

\* open, given the drawn value as its direct parameter
applyOpen ==
    /\ cop = "none"
    /\ cop' = "open"
    /\ cout' = open(cin)
    /\ UNCHANGED <<cin, srvVars>>

CastInit ==
    /\ pc = [r \in Reqs |-> "new"]
    /\ req = [r \in Reqs |-> NoLine]
    /\ call = [r \in Reqs |-> NoCall]
    /\ execs = [r \in Reqs |-> <<>>]
    /\ output = <<>>
    /\ initialized = FALSE
    /\ cin \in CastInputs
    /\ cop = "none"
    /\ cout = Null

CastNext ==
    \/ applyEscape
    \/ applyCast
    \/ applyCastAndEscape
    \/ applySetValue
    \/ applySetReference
    \/ applyGetBounds
    \/ applySetBounds
    \/ applyDoScript
    \/ applyGetUrl
    \/ applyOpen

SpecCast == CastInit /\ [][CastNext]_vars

(***************************************************************************)
(* The commands with optional clauses, each composing its script from      *)
(* three drawn arguments                                                   *)
(***************************************************************************)
FirstArguments ==
    { Undefined, Null, Str(<<>>), Str(<<"l","s">>), Str(Document1) }

OptionalArguments ==
    { Undefined, Null, Str(<<>>), Bool(FALSE), Bool(TRUE), Num(0, 0), Num(2, 0),
      Str(<<"a","s","k">>), Str(<<"y","e","s">>), Str(Window1), Str(WindowMain),
      Str(<<"{","a","}">>) }

composeClose ==
    /\ cop = "none"
    /\ cop' = "closeForDocument"
    /\ cout' = closeForDocument(cin[1], cin[2], cin[3])
    /\ UNCHANGED <<cin, srvVars>>

composePrint ==
    /\ cop = "none"
    /\ cop' = "printFile"
    /\ cout' = printFile(cin[1], cin[2], cin[3])
    /\ UNCHANGED <<cin, srvVars>>

composeDoScript ==
    /\ cop = "none"
    /\ cop' = "doScript"
    /\ cout' = doScript(cin[1], cin[2], cin[3])
    /\ UNCHANGED <<cin, srvVars>>

\* the values of n property arguments of which the first, the second and the
\* last are given and the others are left out
PropertyValues(n, a, b, c) ==
    [i \in 1..n |-> IF i = 1 THEN a ELSE IF i = 2 THEN b ELSE IF i = n THEN c
                    ELSE Undefined]

composeMakeWindow ==
    /\ cop = "none"
    /\ cop' = "makeWindow"
    /\ cout' = makeWindow(Undefined, Undefined,
                          PropertyValues(Len(WindowProperties), cin[1], cin[2], cin[3]))
    /\ UNCHANGED <<cin, srvVars>>

composeMakeTab ==
    /\ cop = "none"
    /\ cop' = "makeTabOfWindow"
    /\ cout' = makeTabOfWindow(Str(Window1), Undefined,
                               PropertyValues(Len(TabProperties), cin[1], cin[2], cin[3]))
    /\ UNCHANGED <<cin, srvVars>>

ComposeInit ==
    /\ pc = [r \in Reqs |-> "new"]
    /\ req = [r \in Reqs |-> NoLine]
    /\ call = [r \in Reqs |-> NoCall]
    /\ execs = [r \in Reqs |-> <<>>]
    /\ output = <<>>
    /\ initialized = FALSE
    /\ cin \in FirstArguments \X OptionalArguments \X OptionalArguments
    /\ cop = "none"
    /\ cout = Null

ComposeNext ==
    \/ composeClose
    \/ composePrint
    \/ composeDoScript
    \/ composeMakeWindow
    \/ composeMakeTab

SpecCompose == ComposeInit /\ [][ComposeNext]_vars

(***************************************************************************)
(* Properties of the server (specification Spec)                           *)
(***************************************************************************)
IsSpawn(e) == e[1] = "spawn"
IsFail(e) == e[1] = "fail"
IsWait(e) == e[1] = "wait"

Spawns(c) == SelectSeq(c.log, IsSpawn)
Fails(c) == SelectSeq(c.log, IsFail)
Waits(c) == SelectSeq(c.log, IsWait)

\* the responses written for request r, in the order written
ResponsesTo(r) == SelectSeq(output, LAMBDA o : o.id = r)

IsToolsCall(r) == req[r].json /\ req[r].method = "tools/call"

\* the probe of request r has ended and reported the application unavailable:
\* the call threw, or printed something other than the sentinel
ProbeUnavailable(r) ==
    /\ execs[r] # <<>>
    /\ execs[r][1].kind = "probe"
    /\ \/ execs[r][1].phase = "thrown"
       \/ execs[r][1].phase = "returned" /\ trim(execs[r][1].stdout) # Available

ProbeAvailable(r) ==
    /\ execs[r] # <<>>
    /\ execs[r][1].kind = "probe"
    /\ execs[r][1].phase = "returned"
    /\ trim(execs[r][1].stdout) = Available

\* C1: in every executeAppleScript call the attempts are numbered 0..MAX_RETRIES
\* in order; a successful attempt is the last thing the call does and its
\* trimmed stdout is the call's result; a failed attempt n < MAX_RETRIES is
\* followed by one wait of RETRY_DELAY * 2^n and then, if anything, by attempt
\* n+1.  A call that failed twice and then succeeded has waited RETRY_DELAY*1
\* then RETRY_DELAY*2, returns the third attempt's stdout and made no fourth
\* attempt.
C1_RetrySchedule ==
    \A r \in Reqs :
        LET c == call[r]
            log == c.log
        IN  /\ c.attempt \in 0..MAX_RETRIES
            /\ \A i \in 1..Len(Spawns(c)) : Spawns(c)[i] = <<"spawn", i - 1>>
            /\ \A i \in 1..Len(log) :
                /\ log[i][1] = "ok" =>
                     /\ i = Len(log)
                     /\ log[i][2] = c.attempt
                     /\ c.phase = "returned"
                     /\ c.result = Str(trim(log[i][3]))
                /\ (log[i][1] = "fail" /\ log[i][2] < MAX_RETRIES) =>
                     /\ i < Len(log)
                     /\ log[i + 1] = <<"wait", RETRY_DELAY * (2 ^ log[i][2])>>
                     /\ i + 1 = Len(log) => c.phase = "waiting"
                     /\ i + 1 < Len(log) => log[i + 2] = <<"spawn", log[i][2] + 1>>
                /\ log[i][1] = "wait" => i > 1 /\ log[i - 1][1] = "fail"
            /\ (Len(Fails(c)) = 2 /\ c.phase = "returned") =>
                 /\ Waits(c) = << <<"wait", RETRY_DELAY * 1>>, <<"wait", RETRY_DELAY * 2>> >>
                 /\ Len(Spawns(c)) = 3
                 /\ c.result = Str(trim(log[Len(log)][3]))

\* an operation's call that failed on its first two attempts and returned on
\* its third
C1_Witness ==
    \E r \in Reqs :
        /\ pc[r] = "done"
        /\ Len(execs[r]) = 2
        /\ call[r].phase = "returned"
        /\ Len(Fails(call[r])) = 2
        /\ call[r].result = Str(Available)

\* C2: a call never makes more than MAX_RETRIES+1 (= 4) attempts; it throws
\* exactly when all MAX_RETRIES+1 attempts have failed, and the error thrown
\* carries ("AppleScript error: " before it) the message of the last failed
\* attempt, which is the message of no earlier attempt.
C2_ExhaustedRetries ==
    \A r \in Reqs :
        LET c == call[r]
            fails == Fails(c)
        IN  /\ MAX_RETRIES + 1 = 4
            /\ Len(Spawns(c)) <= MAX_RETRIES + 1
            /\ (c.phase = "thrown") <=> (Len(fails) = MAX_RETRIES + 1)
            /\ c.phase = "thrown" =>
                 /\ Len(Spawns(c)) = MAX_RETRIES + 1
                 /\ c.log[Len(c.log)] = fails[Len(fails)]
                 /\ c.result = Str(AppleScriptErrorPrefix \o fails[Len(fails)][3])
                 /\ \A i \in 1..(Len(fails) - 1) :
                        c.result # Str(AppleScriptErrorPrefix \o fails[i][3])

\* an operation's call has thrown after its last attempt
C2_Witness ==
    \E r \in Reqs :
        /\ pc[r] = "done"
        /\ Len(execs[r]) = 2
        /\ call[r].phase = "thrown"
        /\ Len(Spawns(call[r])) = 4

\* C3: when the probe reports the application unavailable (it threw, or its
\* output is not the sentinel), the request is answered, once, with
\* {success:false, error:"Application is not available or not running"}, and no
\* executeAppleScript call other than the probe's was begun for the request.
C3_UnavailableShortCircuit ==
    \A r \in Reqs :
        ProbeUnavailable(r) =>
            /\ pc[r] = "done"
            /\ Len(execs[r]) = 1
            /\ call[r].script = ProbeScript
            /\ Len(ResponsesTo(r)) = 1
            /\ ResponsesTo(r)[1].result.content =
                 << [type |-> "text",
                     text |-> [success |-> Bool(FALSE),
                               error |-> Str(UnavailableMessage)]] >>

\* get_name_of_window with a valid target, answered as unavailable because the
\* probe printed something else than the sentinel
C3_Witness ==
    \E r \in Reqs :
        /\ ProbeUnavailable(r)
        /\ execs[r][1].phase = "returned"
        /\ req[r].params = Params(Str(GetNameOfWindowTool), Args(Str(Window1), Undefined))
        /\ Len(ResponsesTo(r)) = 1

\* the error a request raises once the probe has said available, if any
RaisesAfterProbe(r) ==
    \/ req[r].params.f.name = Str(NoSuchTool)
    \/ req[r].params.f.arguments.t = "undefined"
    \/ /\ req[r].params.f.name = Str(SetIndexOfWindowTool)
       /\ req[r].params.f.arguments.f.value_required_integer.t = "undefined"
    \/ Len(execs[r]) = 2 /\ execs[r][2].phase = "thrown"

RaisedMessage(r) ==
    IF req[r].params.f.name = Str(NoSuchTool)
    THEN UnknownToolPrefix \o NoSuchTool
    ELSE IF req[r].params.f.arguments.t = "undefined"
    THEN ArgsTypeErrorMessage
    ELSE IF req[r].params.f.name = Str(SetIndexOfWindowTool)
    THEN ValueIntegerRequired
    ELSE AppleScriptErrorPrefix \o attemptError(MAX_RETRIES)

\* C4: an error raised after the probe said available (unknown tool, missing
\* arguments object, failed validation, executeAppleScript throwing after its
\* retries) ends the request with exactly one response, whose text is
\* {success:false, error:<the message>, tool:<the name>, args:<the arguments>}
\* as JSON gives it (args left out when the request has none).
C4_ErrorEnvelope ==
    \A r \in Reqs :
        (pc[r] = "done" /\ ProbeAvailable(r) /\ RaisesAfterProbe(r)) =>
            /\ Len(ResponsesTo(r)) = 1
            /\ LET content == ResponsesTo(r)[1].result.content
                   text == content[1].text
                   args == req[r].params.f.arguments
               IN  /\ Len(content) = 1
                   /\ content[1].type = "text"
                   /\ DOMAIN text = {"success", "error", "tool"}
                                    \cup (IF args.t = "undefined" THEN {} ELSE {"args"})
                   /\ text.success = Bool(FALSE)
                   /\ text.error = Str(RaisedMessage(r))
                   /\ text.tool = req[r].params.f.name
                   /\ IF args.t = "undefined"
                      THEN TRUE
                      ELSE /\ text.args.t = "object"
                           /\ \A k \in DOMAIN args.f :
                                IF args.f[k].t = "undefined"
                                THEN k \notin DOMAIN text.args.f
                                ELSE /\ k \in DOMAIN text.args.f
                                     /\ text.args.f[k] = args.f[k]

\* an operation whose script failed on all its attempts, answered
C4_Witness ==
    \E r \in Reqs :
        /\ pc[r] = "done"
        /\ ProbeAvailable(r)
        /\ Len(execs[r]) = 2
        /\ execs[r][2].phase = "thrown"
        /\ Len(ResponsesTo(r)) = 1

\* C5: every tools/call request whose handling has ended was answered by exactly
\* one response with a one-element content list, and none is ever answered
\* twice.
C5_OneResponsePerCall ==
    \A r \in Reqs :
        IsToolsCall(r) =>
            /\ Len(ResponsesTo(r)) <= 1
            /\ pc[r] = "done" =>
                 /\ Len(ResponsesTo(r)) = 1
                 /\ Len(ResponsesTo(r)[1].result.content) = 1

(***************************************************************************)
(* Properties of the caster and the escaper (specification SpecCast)       *)
(***************************************************************************)
RECURSIVE BackslashesBefore(_, _)
BackslashesBefore(s, i) ==
    IF i > 1 /\ s[i - 1] = BS THEN 1 + BackslashesBefore(s, i - 1) ELSE 0

\* s between two double quotes is one closed literal: every double quote in s
\* has an odd number of backslashes right before it, and the closing quote an
\* even number
ClosedLiteralBody(s) ==
    /\ \A i \in 1..Len(s) : s[i] = DQ => BackslashesBefore(s, i) % 2 = 1
    /\ BackslashesBefore(s, Len(s) + 1) % 2 = 0

\* C6: for a string holding a double quote, a backslash or a newline, the
\* escaped string between two double quotes is a closed literal with no
\* unescaped double quote inside.
C6_EscapeClosesLiteral ==
    ( /\ cop = "escapeForAppleScript"
      /\ cin.t = "string"
      /\ \E i \in 1..Len(cin.v) : cin.v[i] \in {DQ, BS, NL} )
    => ClosedLiteralBody(cout.v)

\* what the claim has the escaper make of one character; q is what becomes of
\* a double quote, on which this claim is silent
EscapedChar(c, q) ==
    CASE c = BS -> <<BS, BS>>
      [] c = NL -> <<BS, "n">>
      [] c = CR -> <<BS, "r">>
      [] c = DQ -> q
      [] OTHER  -> <<c>>

EscapedString(s, q) == Flatten([i \in 1..Len(s) |-> EscapedChar(s[i], q)])

\* C7: the escaper's output is its input with every backslash doubled, every
\* newline made backslash-n and every carriage return backslash-r, character by
\* character (a double quote left or backslashed): no backslash a later
\* replacement inserted is doubled again, and no raw newline or carriage
\* return is left.
C7_EscapeOrder ==
    (cop = "escapeForAppleScript" /\ cin.t = "string") =>
        /\ cout.t = "string"
        /\ \/ cout.v = EscapedString(cin.v, <<DQ>>)
           \/ cout.v = EscapedString(cin.v, <<BS, DQ>>)
        /\ \A i \in 1..Len(cout.v) : cout.v[i] \notin {NL, CR}

\* a backslash, a newline, a carriage return and a letter, escaped
C7_Witness ==
    /\ cop = "escapeForAppleScript"
    /\ cin = Str(<<BS, NL, CR, "n">>)
    /\ cout = Str(<<BS, BS, BS, "n", BS, "r", "n">>)

\* numeric parts, and every string of exactly four of them joined by commas
NumericParts ==
    {<<"1","0">>, <<"-","3">>, <<"0",".","5">>, <<"0","0","7">>,
     <<"2","0">>, <<"3","0","0">>, <<"4","0","0">>}

RectStrings == { Join(ps, <<",">>) : ps \in [1..4 -> NumericParts] }

\* C8: a string of exactly four numeric parts joined by commas is cast by the
\* rectangle rule, not the generic list rule, to the string itself in one pair
\* of braces, and that is the text a setter puts in its script: not escaped,
\* not quoted.
C8_RectangleLiteral ==
    (cin.t = "string" /\ cin.v \in RectStrings) =>
        /\ castBranch(cin) = "rectangle"
        /\ cop = "universalCast" => cout = Str(<<"{">> \o cin.v \o <<"}">>)
        /\ cop = "castAndEscape" => cout = Str(<<"{">> \o cin.v \o <<"}">>)
        /\ cop = "valueForScript" => cout = Str(<<"{">> \o cin.v \o <<"}">>)

\* the specification's example, 10,20,300,400, as a setter renders it
C8_Witness ==
    /\ cop = "valueForScript"
    /\ cin = Str(<<"1","0",",","2","0",",","3","0","0",",","4","0","0">>)
    /\ cout = Str(<<"{","1","0",",","2","0",",","3","0","0",",","4","0","0","}">>)

\* C9: a boolean setter's value renders as true for any case variant of true or
\* yes, as false for any case variant of false or no, and as a double-quoted
\* string for every other string.
C9_BooleanHint ==
    (cop = "valueForScript" /\ cin.t = "string") =>
        IF toLowerCase(cin.v) \in {<<"t","r","u","e">>, <<"y","e","s">>}
        THEN cout = Str(<<"t","r","u","e">>)
        ELSE IF toLowerCase(cin.v) \in {<<"f","a","l","s","e">>, <<"n","o">>}
        THEN cout = Str(<<"f","a","l","s","e">>)
        ELSE /\ Len(cout.v) >= 2
             /\ cout.v[1] = DQ
             /\ cout.v[Len(cout.v)] = DQ

RECURSIVE LeadingDigits(_)
LeadingDigits(s) ==
    IF s # <<>> /\ IsDigit(s[1]) THEN 1 + LeadingDigits(Tail(s)) ELSE 0

\* a text a numeric parser reads whole: an optional minus, digits, and
\* possibly a point followed by digits
ReadsAsNumber(s) ==
    LET body == IF s # <<>> /\ s[1] = "-" THEN Tail(s) ELSE s
        k    == LeadingDigits(body)
    IN  /\ k >= 1
        /\ \/ k = Len(body)
           \/ /\ body[k + 1] = "."
              /\ LeadingDigits(SubSeq(body, k + 2, Len(body))) = Len(body) - k - 1
              /\ Len(body) > k + 1

\* the number such a text denotes, as a fraction num / den
DecimalOf(s) ==
    LET neg  == s[1] = "-"
        body == IF neg THEN Tail(s) ELSE s
        k    == LeadingDigits(body)
        ip   == SubSeq(body, 1, k)
        fp   == SubSeq(body, k + 2, Len(body))
        mag  == DigitsToNat(ip) * (10 ^ Len(fp)) + DigitsToNat(fp)
    IN  [num |-> IF neg THEN 0 - mag ELSE mag, den |-> 10 ^ Len(fp)]

SameNumber(a, b) == a.num * b.den = b.num * a.den

\* C10: a string matching -?digits(.digits)? is cast to a number, and the text
\* that number is rendered as (unquoted, by a setter too) reads back as the
\* number the string denotes.
C10_NumberRoundTrip ==
    (cin.t = "string" /\ cin.v \in NumericStrings) =>
        /\ cop \in {"universalCast", "castAndEscape"} =>
             /\ cout.t = "number"
             /\ ReadsAsNumber(String(cout))
             /\ SameNumber(DecimalOf(String(cout)), DecimalOf(cin.v))
        /\ cop = "valueForScript" =>
             /\ ReadsAsNumber(cout.v)
             /\ SameNumber(DecimalOf(cout.v), DecimalOf(cin.v))

\* a negative value with a leading zero and a trailing zero, rendered by a setter
C10_Witness ==
    /\ cop = "valueForScript"
    /\ cin = Str(<<"-","0","7",".","1","0">>)
    /\ cout = Str(<<"-","7",".","1">>)

(***************************************************************************)
(* Properties of the dispatcher on one request (specification SpecOne)     *)
(***************************************************************************)
NonEmpty(s) == s # <<>>

TrimEach(ls) == [i \in 1..Len(ls) |-> trim(ls[i])]

\* a script's lines, white space at both ends dropped and blank lines left out
ScriptLines(script) == SelectSeq(TrimEach(split(script, NL)), NonEmpty)

\* how many times t occurs in s
Occurrences(s, t) ==
    Cardinality({ i \in 1..(Len(s) - Len(t) + 1) : SubSeq(s, i, i + Len(t) - 1) = t })

\* the request is a tools/call for tool name with a target and the operation's
\* script has been composed and handed to executeAppleScript
Composed(r, name, target) ==
    /\ IsToolsCall(r)
    /\ req[r].params.t = "object"
    /\ req[r].params.f.name = Str(name)
    /\ req[r].params.f.arguments.t = "object"
    /\ req[r].params.f.arguments.f.target_window_required_string = Str(target)
    /\ Len(execs[r]) = 2

\* C11: the script composed for get_bounds_of_window on target window "Main"
\* is, line by line, the application block around one block
\* `tell window "Main"` ... `end tell` whose body is `return bounds of it`, and
\* the target's text occurs in it once, unchanged.
C11_GetBoundsScript ==
    \A r \in Reqs :
        Composed(r, GetBoundsOfWindowTool, WindowMain) =>
            /\ ScriptLines(call[r].script) =
                 << <<"t","e","l","l"," ","a","p","p","l","i","c","a","t","i","o","n"," ",
                      "\"","T","e","r","m","i","n","a","l","\"">>,
                    <<"t","e","l","l"," ">> \o WindowMain,
                    <<"r","e","t","u","r","n"," ","b","o","u","n","d","s"," ","o","f"," ",
                      "i","t">>,
                    <<"e","n","d"," ","t","e","l","l">>,
                    <<"e","n","d"," ","t","e","l","l">> >>
            /\ Occurrences(call[r].script, WindowMain) = 1

\* get_bounds_of_window on window "Main", composed, run and answered
C11_Witness ==
    /\ Composed(1, GetBoundsOfWindowTool, WindowMain)
    /\ pc[1] = "done"
    /\ execs[1][2].phase = "returned"
    /\ Len(ResponsesTo(1)) = 1

\* the operation of request r was started and its call has ended that way
OpEnded(r, phase) ==
    /\ pc[r] = "done"
    /\ Len(execs[r]) = 2
    /\ execs[r][2].phase = phase

\* the text of the only response to request r
ResponseText(r) == ResponsesTo(r)[1].result.content[1].text

\* C12: the response of an operation whose script ran has success true exactly
\* when the interpreter's trimmed output differs from "Error"; when the
\* interpreter failed on every attempt there is no operation response but the
\* dispatcher's error envelope.
C12_SuccessFlag ==
    \A r \in Reqs :
        /\ OpEnded(r, "returned") =>
             /\ Len(ResponsesTo(r)) = 1
             /\ "script" \in DOMAIN ResponseText(r)
             /\ "error" \notin DOMAIN ResponseText(r)
             /\ ResponseText(r).success =
                  Bool(trim(execs[r][2].stdout) # <<"E","r","r","o","r">>)
        /\ OpEnded(r, "thrown") =>
             /\ Len(ResponsesTo(r)) = 1
             /\ "script" \notin DOMAIN ResponseText(r)
             /\ {"error", "tool"} \subseteq DOMAIN ResponseText(r)
             /\ ResponseText(r).success = Bool(FALSE)

\* get_name_of_window whose script printed Error between blanks: success false
C12_Witness ==
    /\ OpEnded(1, "returned")
    /\ req[1].params.f.name = Str(GetNameOfWindowTool)
    /\ execs[1][2].stdout = StdoutErrorPadded
    /\ ResponseText(1).success = Bool(FALSE)

\* the arguments of request r, a tools/call for one of the modelled operations
\* with an arguments object
HasArguments(r) ==
    /\ IsToolsCall(r)
    /\ req[r].params.t = "object"
    /\ req[r].params.f.name \in
         {Str(GetNameOfWindowTool), Str(GetBoundsOfWindowTool), Str(SetIndexOfWindowTool)}
    /\ req[r].params.f.arguments.t = "object"

TargetOf(r) == req[r].params.f.arguments.f.target_window_required_string
ValueOf(r) == req[r].params.f.arguments.f.value_required_integer

\* a target reference that is missing, null, empty or not a string
BadTarget(r) == TargetOf(r).t # "string" \/ TargetOf(r).v = <<>>

\* a required value that is missing or null
NoValue(r) ==
    /\ req[r].params.f.name = Str(SetIndexOfWindowTool)
    /\ ValueOf(r).t \in {"undefined", "null"}

\* C13: a request whose target reference is missing, null, empty or not a
\* string, or whose required value is missing or null, never has a script
\* executed for its operation (no attempt, no retry), and once the probe has
\* said available it ends with one response: success false and the
\* validation's message.
C13_ValidationFailure ==
    \A r \in Reqs :
        (HasArguments(r) /\ (BadTarget(r) \/ NoValue(r))) =>
            /\ Len(execs[r]) <= 1
            /\ \A i \in 1..Len(execs[r]) : execs[r][i].kind = "probe"
            /\ call[r].script \in {<<>>, ProbeScript}
            /\ (pc[r] = "done" /\ ProbeAvailable(r)) =>
                 /\ Len(ResponsesTo(r)) = 1
                 /\ ResponseText(r).success = Bool(FALSE)
                 /\ ResponseText(r).error =
                      Str(IF BadTarget(r) THEN TargetWindowRequired
                                          ELSE ValueIntegerRequired)

\* set_index_of_window with a target and a null value, refused
C13_Witness ==
    /\ HasArguments(1)
    /\ TargetOf(1) = Str(Window1)
    /\ req[1].params.f.name = Str(SetIndexOfWindowTool)
    /\ ValueOf(1) = Null
    /\ pc[1] = "done"
    /\ ProbeAvailable(1)
    /\ ResponseText(1).error = Str(ValueIntegerRequired)

\* C14: a tools/call naming a tool that is no known operation ends with one
\* response, success false and error "Unknown tool: <name>", whatever the
\* probe reported, and no operation script is executed for it.
C14_UnknownTool ==
    \A r \in Reqs :
        ( /\ IsToolsCall(r)
          /\ req[r].params.t = "object"
          /\ req[r].params.f.name = Str(NoSuchTool) ) =>
            /\ Len(execs[r]) <= 1
            /\ pc[r] = "done" =>
                 /\ Len(ResponsesTo(r)) = 1
                 /\ ResponseText(r).success = Bool(FALSE)
                 /\ ResponseText(r).error =
                      Str(<<"U","n","k","n","o","w","n"," ","t","o","o","l",":"," ">>
                          \o NoSuchTool)

(***************************************************************************)
(* The backoff waited in one executeAppleScript call                       *)
(***************************************************************************)
RECURSIVE SumWaits(_)
SumWaits(ws) == IF ws = <<>> THEN 0 ELSE Head(ws)[2] + SumWaits(Tail(ws))

\* the milliseconds of backoff the call has waited or is waiting
TotalWait(c) == SumWaits(Waits(c))

\* RETRY_DELAY * (2^0 + ... + 2^(MAX_RETRIES-1))
MaxTotalWait == RETRY_DELAY * ((2 ^ MAX_RETRIES) - 1)

CallEnded(c) == c.phase \in {"returned", "thrown"}

\* C15 as stated: the total is the full sum exactly when all attempts failed
C15_FullSumIffAllFail ==
    \A r \in Reqs :
        CallEnded(call[r]) =>
            ((TotalWait(call[r]) = MaxTotalWait) <=> (call[r].phase = "thrown"))

\* C15, amended: the backoff waited in one call is never more than
\* RETRY_DELAY * (2^0 + ... + 2^(MAX_RETRIES-1)) = 7000 ms; a call that has
\* ended waited that sum exactly when its first MAX_RETRIES attempts failed
\* (so also when all attempts failed); and the final failed attempt is
\* followed by no wait.
C15_TotalBackoff ==
    \A r \in Reqs :
        /\ MaxTotalWait = 7000
        /\ TotalWait(call[r]) <= MaxTotalWait
        /\ Len(Waits(call[r])) <= MAX_RETRIES
        /\ CallEnded(call[r]) =>
             ((TotalWait(call[r]) = MaxTotalWait) <=>
                 (Len(Fails(call[r])) >= MAX_RETRIES))
        /\ call[r].phase = "thrown" =>
             /\ TotalWait(call[r]) = MaxTotalWait
             /\ call[r].log[Len(call[r].log)][1] = "fail"
             /\ Len(Waits(call[r])) = Len(Fails(call[r])) - 1

\* an operation's call that failed on every attempt and waited 7000 ms in all
C15_Witness ==
    /\ OpEnded(1, "thrown")
    /\ Len(Fails(call[1])) = 4
    /\ TotalWait(call[1]) = 7000

(***************************************************************************)
(* Termination (specification SpecOneFair)                                 *)
(***************************************************************************)
\* every executeAppleScript call that is running or waiting ends
ExecuteTerminates ==
    \A r \in Reqs :
        (call[r].phase \in {"running", "waiting"}) ~> CallEnded(call[r])

\* C16: every executeAppleScript call eventually returns or throws, and every
\* tools/call request is eventually answered.
C16_EventuallyAnswered ==
    \A r \in Reqs :
        /\ (call[r].phase \in {"running", "waiting"}) ~> CallEnded(call[r])
        /\ IsToolsCall(r) ~> (pc[r] = "done" /\ Len(ResponsesTo(r)) = 1)

(***************************************************************************)
(* Properties of the setters' rendering (specification SpecCast)           *)
(***************************************************************************)
\* the returns of universalCast that give the String variant: the empty
\* string, a string with its quotes stripped, a plain string
StringVariant(value) == castBranch(value) \in {"empty", "unquote", "string"}

\* C17: a property setter renders its value escaped and wrapped in double
\* quotes if and only if the cast gave it the String variant, whatever the
\* string's first characters; numbers, booleans, brace literals and dates are
\* rendered as they are, unquoted.
C17_QuotedIffString ==
    (cop = "valueForScript" /\ cin.t = "string") =>
        IF StringVariant(cin)
        THEN cout.v = <<DQ>> \o escapeForAppleScript(universalCast(cin)).v \o <<DQ>>
        ELSE cout.v = String(universalCast(cin))

\* C19: a settings set setter embeds a reference text as it is given: a text
\* that looks like a boolean, a number, a comma list or a quoted string is not
\* converted.
C19_ReferenceAsGiven ==
    ( /\ cop = "referenceForScript"
      /\ cin.t = "string"
      /\ cin.v = trim(cin.v)
      /\ \/ castBranch(cin) \in {"true", "false", "number", "rectangle", "list"}
         \/ castBranch(cin) = "unquote" /\ Len(cin.v) >= 2 )
    => cout.v = cin.v

\* s is the keyword date and one double-quoted value
OneDateLiteral(s) ==
    /\ Len(s) >= Len(DatePrefix) + 2
    /\ SubSeq(s, 1, Len(DatePrefix)) = DatePrefix
    /\ s[Len(s)] = DQ
    /\ Cardinality({ i \in 1..Len(s) : s[i] = DQ }) = 2

\* C20: an input the cast takes for a date is rendered as one well-formed date
\* literal: an input of the form date "V" as itself, an input that begins
\* with YYYY-MM-DD and holds no double quote as date "<input>".
C20_DateLiteral ==
    ( /\ cop \in {"universalCast", "castAndEscape", "valueForScript"}
      /\ cin.t = "string"
      /\ castBranch(cin) = "date"
      /\ \/ OneDateLiteral(trim(cin.v))
         \/ ~includes(cin.v, DQ) ) =>
        /\ OneDateLiteral(String(cout))
        /\ String(cout) = IF OneDateLiteral(trim(cin.v))
                          THEN trim(cin.v)
                          ELSE DatePrefix \o trim(cin.v) \o <<DQ>>

(***************************************************************************)
(* Properties of the commands' clauses (specification SpecCompose)         *)
(***************************************************************************)
\* an argument that was not given, and one that was given with some content
NotGiven(a) == a.t \in {"undefined", "null"}

Given(a) ==
    \/ a.t = "string" /\ a.v # <<>>
    \/ a.t = "boolean" /\ a.v
    \/ a.t = "number" /\ a.m # 0

\* text is made of one stretch per clause, in the order of keywords: nothing
\* for an argument not given, something that starts with the clause's keyword
\* for an argument given
RECURSIVE ClausesInOrder(_, _, _)
ClausesInOrder(text, keywords, arguments) ==
    IF keywords = <<>>
    THEN text = <<>>
    ELSE \E k \in 0..Len(text) :
            /\ NotGiven(arguments[1]) => k = 0
            /\ Given(arguments[1]) => k > 0
            /\ k > 0 => /\ k >= Len(keywords[1])
                        /\ SubSeq(text, 1, Len(keywords[1])) = keywords[1]
            /\ ClausesInOrder(SubSeq(text, k + 1, Len(text)),
                              Tail(keywords), Tail(arguments))

\* script is before, then the clauses, then after
ClausesBetween(script, before, after, keywords, arguments) ==
    /\ Len(script) >= Len(before) + Len(after)
    /\ SubSeq(script, 1, Len(before)) = before
    /\ SubSeq(script, Len(script) - Len(after) + 1, Len(script)) = after
    /\ ClausesInOrder(SubSeq(script, Len(before) + 1, Len(script) - Len(after)),
                      keywords, arguments)

\* the first argument is a plain text, which the cast leaves as it is
PlainFirst == cin[1] \in {Str(<<"l","s">>), Str(<<"d","o","c","u","m","e","n","t"," ","1">>)}

\* C18: close, print and do script put their optional clauses in the script
\* in one fixed order (saving, saving in; with properties, print dialog; the
\* text, with command, in), each given argument's clause starting with its
\* keyword, and an argument that is null or undefined contributes nothing.
C18_ClauseOrder ==
    /\ (cop = "closeForDocument" /\ PlainFirst) =>
         /\ cout.kind = "exec"
         /\ ClausesBetween(cout.script,
               ScriptHead \o cin[1].v
                  \o <<"\n"," "," "," "," "," "," "," "," "," "," ","c","l","o","s","e"," ","i","t">>,
               ScriptTail,
               << <<" ","s","a","v","i","n","g"," ">>,
                  <<" ","s","a","v","i","n","g"," ","i","n"," ">> >>,
               <<cin[2], cin[3]>>)
    /\ (cop = "printFile" /\ PlainFirst) =>
         /\ cout.kind = "exec"
         /\ ClausesBetween(cout.script,
               AppHead \o <<"p","r","i","n","t"," ">> \o cin[1].v,
               AppTail,
               << <<" ","w","i","t","h"," ","p","r","o","p","e","r","t","i","e","s"," ">>,
                  <<" ","p","r","i","n","t"," ","d","i","a","l","o","g"," ">> >>,
               <<cin[2], cin[3]>>)
    /\ cop = "doScript" =>
         /\ cout.kind = "exec"
         /\ ClausesBetween(cout.script,
               AppHead \o <<"d","o"," ","s","c","r","i","p","t">>,
               AppTail,
               << <<" ","\"">>,
                  <<" ","w","i","t","h"," ","c","o","m","m","a","n","d"," ","\"">>,
                  <<" ","i","n"," ">> >>,
               cin)

\* close with no saving argument and a saving in argument: one clause only
C18_Witness ==
    /\ cop = "closeForDocument"
    /\ cin = <<Str(Document1), Null, Str(Window1)>>
    /\ cout.kind = "exec"
    /\ cout.script = ScriptHead \o Document1 \o CloseBody \o SavingInClause
                       \o <<DQ>> \o Window1 \o <<DQ>> \o ScriptTail

(***************************************************************************)
(* Properties of requests in flight together (specification Spec)          *)
(***************************************************************************)
\* all that the server holds of request r
RequestState(r) == <<pc[r], req[r], call[r], execs[r]>>

\* C21: requests are handled concurrently and share no state: no step changes
\* what the server holds of two requests, so the attempt counter, the script
\* and the result of one request's call change only in that request's own
\* steps.
C21_NoSharedState ==
    [][ \A q1, q2 \in Reqs :
          (RequestState(q1)' # RequestState(q1) /\ RequestState(q2)' # RequestState(q2))
              => q1 = q2 ]_vars

\* the second request's probe is running while the first request's operation
\* subprocess, on its second attempt, has not exited
C21_Witness ==
    /\ pc[1] = "op"
    /\ call[1].phase = "running"
    /\ call[1].attempt = 1
    /\ pc[2] = "probe"
    /\ call[2].phase = "running"
    /\ call[2].attempt = 0


\* request q's line made its handling throw: it was not JSON, or it was a
\* tools/call without params, or its tool's operation failed
Erred(q) ==
    /\ pc[q] # "new"
    /\ \/ ~req[q].json
       \/ req[q].method = "tools/call" /\ req[q].params.t = "undefined"
       \/ pc[q] = "done" /\ call[q] # NoCall /\ call[q].phase = "thrown"

\* the method of request q's line is none the server knows
UnknownMethod(q) ==
    /\ pc[q] # "new"
    /\ req[q].json
    /\ req[q].method \notin {"initialize", "initialized", "tools/list", "tools/call"}

\* request r is the next line of stdin
NextLine(r) == pc[r] = "new" /\ \A q \in Reqs : q < r => pc[q] # "new"

\* C22: no error escapes the handling of one message: once a line was not
\* JSON, lacked params, named an unknown method or had its tool fail, the
\* server is still alive, every request in flight can still take its next
\* step (its subprocess can exit, its backoff can elapse) and the next line
\* can still be handled; a request that has ended after starting a call has
\* had its response written.
C22_NoErrorEscapes ==
    (\E q \in Reqs : Erred(q) \/ UnknownMethod(q)) =>
        /\ Alive
        /\ \A r \in Reqs :
            /\ pc[r] \in {"probe", "op"} =>
                 ENABLED (attemptSucceeds(r) \/ attemptFails(r) \/ backoffElapses(r))
            /\ NextLine(r) => ENABLED handleMessage(r)
            /\ (pc[r] = "done" /\ call[r] # NoCall) =>
                 \E i \in 1..Len(output) : output[i].id = r

\* the second line was not JSON while the first request's operation is in
\* flight after a failed attempt
C22_Witness ==
    /\ pc[2] = "done"
    /\ ~req[2].json
    /\ pc[1] = "op"
    /\ call[1].phase = "running"
    /\ call[1].attempt = 1


(***************************************************************************)
(* Properties of the caster's order of rules (specification SpecCast)      *)
(***************************************************************************)
\* the rule of the inference order, 1 to 9, that is the first to match str,
\* the trimmed text of a value that is neither null nor undefined
InferenceRule(str) ==
    IF str = <<>> THEN 2
    ELSE IF toLowerCase(str) \in { <<"t","r","u","e">>, <<"y","e","s">>,
                                   <<"f","a","l","s","e">>, <<"n","o">> } THEN 3
    ELSE IF ReadsAsNumber(str) THEN 4
    ELSE IF str[1] = "{" /\ str[Len(str)] = "}" THEN 5
    ELSE IF \E i \in 1..Len(str) : str[i] = "," THEN 6
    ELSE IF \/ Len(str) >= Len(DatePrefix) /\ SubSeq(str, 1, Len(DatePrefix)) = DatePrefix
            \/ DatePattern(str) THEN 7
    ELSE IF str[1] = str[Len(str)] /\ str[1] \in {DQ, SQ} THEN 8
    ELSE 9

\* out is what rule n gives for str
GivenByRule(n, str, out) ==
    CASE n = 2 -> out = Str(<<>>)
      [] n = 3 -> out = Bool(toLowerCase(str) \in {<<"t","r","u","e">>, <<"y","e","s">>})
      [] n = 4 -> out.t = "number"
      [] n = 5 -> out = Str(str)
      [] n = 6 -> out = Str(<<"{">> \o str \o <<"}">>)
      [] n = 7 -> /\ out.t = "string"
                  /\ Len(out.v) >= Len(DatePrefix)
                  /\ SubSeq(out.v, 1, Len(DatePrefix)) = DatePrefix
      [] n = 8 -> out = Str(SubSeq(str, 2, Len(str) - 1))
      [] n = 9 -> out = Str(str)

\* C23: a cast without a hint gives what the first matching rule of the
\* inference order gives: null gives Null, and a text is decided by the first
\* of rules 2 to 9 that matches it, so that a text holding a comma that is not
\* wrapped in braces, one that only starts with a brace included, is wrapped in
\* braces before the date and quote rules are tried.
C23_InferenceOrder ==
    cop = "universalCast" =>
        IF cin.t \in {"null", "undefined"}
        THEN cout = Null
        ELSE GivenByRule(InferenceRule(trim(String(cin))), trim(String(cin)), cout)


(***************************************************************************)
(* Properties of the make commands' record of properties (specification    *)
(* SpecCompose)                                                            *)
(***************************************************************************)
\* the property arguments of the make command composed, and their names
MadeValues ==
    PropertyValues(IF cop = "makeWindow" THEN Len(WindowProperties)
                   ELSE Len(TabProperties), cin[1], cin[2], cin[3])

MadeNames == IF cop = "makeWindow" THEN WindowProperties ELSE TabProperties

\* the declared positions of the property arguments supplied
SuppliedProperties ==
    SelectSeq([i \in 1..Len(MadeNames) |-> i], LAMBDA i : ~NotGiven(MadeValues[i]))

\* text holds, after its first from characters, the entries of the properties
\* at positions ps in that order, each its name, a colon and a value, with a
\* separator between one and the next and a closing brace after the last
RECURSIVE EntriesFrom(_, _, _)
EntriesFrom(text, from, ps) ==
    IF ps = <<>>
    THEN FALSE
    ELSE \E to \in from + Len(MadeNames[ps[1]]) + 1 .. Len(text) :
            /\ SubSeq(text, from + 1, from + Len(MadeNames[ps[1]]) + 1)
                 = MadeNames[ps[1]] \o <<":">>
            /\ IF Len(ps) = 1
               THEN SubSeq(text, to + 1, Len(text)) = <<"}">>
               ELSE /\ to + Len(PropertySeparator) <= Len(text)
                    /\ SubSeq(text, to + 1, to + Len(PropertySeparator)) = PropertySeparator
                    /\ EntriesFrom(text, to + Len(PropertySeparator), Tail(ps))

\* what the command wrote between its fixed text and the end of the script
MadeClause ==
    IF cop = "makeWindow"
    THEN SubSeq(cout.script, Len(AppHead) + Len(MakeWindowCommand) + 1,
                Len(cout.script) - Len(AppTail))
    ELSE SubSeq(cout.script, Len(ScriptHead) + Len(Window1) + Len(MakeTabBody) + 1,
                Len(cout.script) - Len(ScriptTail))

\* C24: a make new window or make new tab composes the property arguments
\* supplied (those not null or undefined) into one with properties { ... }
\* clause: one name:value entry for each, in declared order, joined by commas;
\* with no property argument supplied the clause is left out.
C24_PropertiesClause ==
    (cop \in {"makeWindow", "makeTabOfWindow"} /\ cout.kind = "exec") =>
        IF SuppliedProperties = <<>>
        THEN MadeClause = <<>>
        ELSE /\ Len(MadeClause) > Len(WithPropertiesOpen)
             /\ SubSeq(MadeClause, 1, Len(WithPropertiesOpen)) = WithPropertiesOpen
             /\ EntriesFrom(MadeClause, Len(WithPropertiesOpen), SuppliedProperties)


(***************************************************************************)
(* Properties of the scripts' target and text (specification SpecCast)     *)
(***************************************************************************)
\* what a script puts between its first tell and the body that follows
TellText(script, body) ==
    SubSeq(script, Len(ScriptHead) + 1, Len(script) - Len(body) - Len(ScriptTail))

\* C25: the getter and the setter of a window's bounds address the same
\* object: for every target both accept, the text the setter puts after tell
\* is the text the getter puts there.
C25_SameTarget ==
    (cop = "setBoundsOfWindow" /\ cout.kind = "exec") =>
        /\ getBoundsOfWindowStart(cin).kind = "exec"
        /\ TellText(cout.script, SetBoundsBody \o SomeBounds)
             = TellText(getBoundsOfWindowStart(cin).script, GetBoundsBody)


\* script is the command, then body in one pair of double quotes
QuotesText(script, command, body) ==
    script = AppHead \o command \o <<DQ>> \o body \o <<DQ>> \o AppTail

\* the text a command is given, escaped: every backslash doubled, newline and
\* carriage return made backslash-n and backslash-r, a double quote left or
\* backslashed
EscapedTexts(s) == { EscapedString(s, <<DQ>>), EscapedString(s, <<BS, DQ>>) }

\* C26: do script and get URL put their text between one pair of double
\* quotes, and what is between them is the escaped text they were given (as
\* given or trimmed), whatever the text looks like: a text starting with a
\* brace or with date, holding a comma, or reading as yes, no or a number.
C26_TextQuoted ==
    ( /\ cop \in {"doScript", "getUrl"}
      /\ cin.t = "string"
      /\ cin.v # <<>> ) =>
        /\ cout.kind = "exec"
        /\ \E body \in EscapedTexts(cin.v) \cup EscapedTexts(trim(cin.v)) :
              QuotesText(cout.script,
                         IF cop = "doScript" THEN DoScriptCommand \o <<" ">>
                         ELSE SubSeq(GetUrlCommand, 1, Len(GetUrlCommand) - 1),
                         body)


(***************************************************************************)
(* Properties of the probe's place in a request (specification SpecOne)    *)
(***************************************************************************)
\* C27: within one tools/call the availability probe is the first call begun
\* and the only probe; while it runs it is one executeAppleScript call of the
\* probe script with at most MAX_RETRIES + 1 attempts; the operation's call is
\* begun only once the probe has returned the sentinel, and all its attempts,
\* retries included, are of the operation's script in that one call, with no
\* further probe begun.
C27_ProbeOnceFirst ==
    \A r \in Reqs :
        /\ Len(execs[r]) <= 2
        /\ execs[r] # <<>> => execs[r][1].kind = "probe"
        /\ Len(execs[r]) = 2 => (execs[r][2].kind = "op" /\ ProbeAvailable(r))
        /\ pc[r] = "probe" =>
             /\ Len(execs[r]) = 1
             /\ call[r].script = ProbeScript
             /\ Len(Spawns(call[r])) = call[r].attempt + 1
             /\ call[r].attempt <= MAX_RETRIES
        /\ pc[r] = "op" =>
             /\ Len(execs[r]) = 2
             /\ call[r].script # ProbeScript
             /\ call[r].script = toolStart(req[r].params).script
             /\ Len(Spawns(call[r])) = call[r].attempt + 1
             /\ call[r].attempt <= MAX_RETRIES

\* the operation is on its last retry, after one probe that said available
C27_Witness ==
    /\ pc[1] = "op"
    /\ call[1].attempt = MAX_RETRIES
    /\ call[1].phase = "running"
    /\ Len(execs[1]) = 2
    /\ ProbeAvailable(1)


(***************************************************************************)
(* Properties of falsy arguments (specifications SpecOne and SpecCast)     *)
(***************************************************************************)
\* request r is a print_file call whose script has been composed and handed
\* to executeAppleScript
PrintComposed(r) ==
    /\ IsToolsCall(r)
    /\ req[r].params.t = "object"
    /\ req[r].params.f.name = Str(PrintFileTool)
    /\ req[r].params.f.arguments.t = "object"
    /\ Len(execs[r]) = 2

\* response text holds argument a under key as it was given
EchoedAsGiven(text, key, a) == NotGiven(a) \/ (key \in DOMAIN text /\ text[key] = a)

\* the script has the clause of keyword exactly when argument a was supplied
ClauseIffSupplied(script, keyword, a) ==
    Occurrences(script, keyword) = IF NotGiven(a) THEN 0 ELSE 1

\* C28: an optional argument of print that is supplied, that is neither null
\* nor undefined, has its clause in the script and, once the script has
\* returned, is echoed in the response as given, false, 0 and the empty text
\* included; only null and undefined drop a clause.
C28_FalsyClauseRendered ==
    \A r \in Reqs :
        PrintComposed(r) =>
            /\ ClauseIffSupplied(call[r].script, WithPropertiesClause,
                   req[r].params.f.arguments.f.with_properties_optional_print_settings)
            /\ ClauseIffSupplied(call[r].script, PrintDialogClause,
                   req[r].params.f.arguments.f.print_dialog_optional_boolean)
            /\ OpEnded(r, "returned") =>
                 /\ Len(ResponsesTo(r)) = 1
                 /\ EchoedAsGiven(ResponseText(r), "with_properties",
                       req[r].params.f.arguments.f.with_properties_optional_print_settings)
                 /\ EchoedAsGiven(ResponseText(r), "print_dialog",
                       req[r].params.f.arguments.f.print_dialog_optional_boolean)


\* C29: a required direct parameter that passes validation, that is any value
\* but null and undefined, is rendered in the script of open and of get URL as
\* its cast value: the empty text as nothing, 0 as 0, false as false, and never
\* as the text null.
C29_RequiredRendered ==
    ( /\ cop \in {"open", "getUrl"}
      /\ cin.t \notin {"undefined", "null"} ) =>
        /\ cout.kind = "exec"
        /\ cout.script =
             IF cop = "open"
             THEN AppHead \o OpenCommand \o String(castAndEscape(cin)) \o AppTail
             ELSE AppHead \o GetUrlCommand \o String(castAndEscape(cin)) \o <<DQ>>
                  \o AppTail


(***************************************************************************)
(* Properties of the responses of requests in flight together              *)
(* (specification Spec)                                                    *)
(***************************************************************************)
\* the response o answers request r, a tools/call, with what r's own calls gave
AnswersOwnCall(o, r) ==
    /\ DOMAIN o.result = {"content"}
    /\ Len(o.result.content) = 1
    /\ "success" \in DOMAIN o.result.content[1].text
    /\ IF OpEnded(r, "returned")
       THEN /\ {"script", "value"} \subseteq DOMAIN o.result.content[1].text
            /\ o.result.content[1].text.script = Str(call[r].script)
            /\ o.result.content[1].text.value = Str(trim(execs[r][2].stdout))
       ELSE /\ "error" \in DOMAIN o.result.content[1].text
            /\ IF OpEnded(r, "thrown")
               THEN o.result.content[1].text.error = call[r].result
               ELSE IF ProbeUnavailable(r)
               THEN o.result.content[1].text.error = Str(UnavailableMessage)
               ELSE /\ "tool" \in DOMAIN o.result.content[1].text
                    /\ o.result.content[1].text.tool = req[r].params.f.name

\* C30: with several requests in flight, every response written carries the
\* id of a request whose handling has ended, no request is answered twice, and
\* the response to a tools/call holds that request's own script and own
\* result (its own interpreter output, its own error), in whatever order the
\* responses come out.
C30_OwnIdOwnResult ==
    \A i \in 1..Len(output) :
        /\ output[i].id \in Reqs
        /\ pc[output[i].id] = "done"
        /\ req[output[i].id].json
        /\ \A j \in 1..Len(output) : output[j].id = output[i].id => j = i
        /\ IsToolsCall(output[i].id) => AnswersOwnCall(output[i], output[i].id)

\* two tool calls answered out of arrival order, the second with Error as
\* its script's output and the first, after it, with another output
C30_Witness ==
    /\ Len(output) = 2
    /\ output[1].id = 2
    /\ output[2].id = 1
    /\ OpEnded(1, "returned")
    /\ OpEnded(2, "returned")
    /\ output[1].result.content[1].text.value = Str(ErrorSentinel)
    /\ output[2].result.content[1].text.value = Str(Available)

====
